---- MODULE Spec2Model ----
(***************************************************************************)
(* Model of the Code of Music language core: the environment model, the    *)
(* argument convention, the evaluator and the music primitives, in the two *)
(* generations the repository carries (the interpreter appended to         *)
(* main.js.bak, called "main" below, and the earlier interpreter.js,       *)
(* called "legacy"), and the quote handling of the parser.                 *)
(*                                                                         *)
(* JavaScript values are tagged records.  A JavaScript string is the       *)
(* sequence of its characters, so that startsWith and slice are computed.  *)
(* Numbers are carried in hundredths (fixed point): 0.7 is 70, 1 is 100.   *)
(* Environment frames live in a heap (a sequence of frames); an            *)
(* environment is the index of its innermost frame, 0 is "no parent".      *)
(***************************************************************************)
EXTENDS Integers, Sequences, FiniteSets, TLC

VARIABLES impl, heap, ast, last

vars == <<impl, heap, ast, last>>

-----------------------------------------------------------------------------
(* Bounds *)

MaxHeap == 3

-----------------------------------------------------------------------------
(* JavaScript values *)

Num(n) == [t |-> "number", v |-> n]
Str(s) == [t |-> "string", v |-> s]
StrLit(s) == [t |-> "strlit", value |-> s]
Arr(s) == [t |-> "array", v |-> s]
Bool(b) == [t |-> "boolean", v |-> b]
Undefined == [t |-> "undefined"]
Null == [t |-> "null"]
NaN == [t |-> "NaN"]
Prim(n) == [t |-> "primitive", name |-> n]
EnvFn(e) == [t |-> "env", id |-> e]
Obj(entries) == [t |-> "object", entries |-> entries]
Closure(params, body, env) ==
    [t |-> "closure", params |-> params, body |-> body, env |-> env]
Err(kind, data) == [t |-> "error", kind |-> kind, data |-> data]
Unmodelled == [t |-> "unmodelled"]

IsErr(v) == v.t = "error"

R(v, h) == [v |-> v, h |-> h]

Hundredths(n) == 100 * n

(* string texts used by the programs below *)
s_quote == <<"q", "u", "o", "t", "e">>
s_let == <<"l", "e", "t">>
s_lambda == <<"l", "a", "m", "b", "d", "a">>
s_if == <<"i", "f">>
s_plus == <<"+">>
s_minus == <<"-">>
s_eq == <<"=">>
s_lt == <<"<">>
s_gt == <<">">>
s_le == <<"<", "=">>
s_ge == <<">", "=">>
s_ne == <<"!", "=">>
s_note == <<"n", "o", "t", "e">>
s_chord == <<"c", "h", "o", "r", "d">>
s_sequence == <<"s", "e", "q", "u", "e", "n", "c", "e">>
s_parallel == <<"p", "a", "r", "a", "l", "l", "e", "l">>
s_beat_machine == <<"b", "e", "a", "t", "-", "m", "a", "c", "h", "i", "n", "e">>
s_drum_machine == <<"d", "r", "u", "m", "-", "m", "a", "c", "h", "i", "n", "e">>
s_arrangement == <<"a", "r", "r", "a", "n", "g", "e", "m", "e", "n", "t">>
s_track == <<"t", "r", "a", "c", "k">>
s_step == <<"s", "t", "e", "p">>
s_effect == <<"e", "f", "f", "e", "c", "t">>
s_velocity == <<"v", "e", "l", "o", "c", "i", "t", "y">>
s_instrument == <<"i", "n", "s", "t", "r", "u", "m", "e", "n", "t">>
s_tempo == <<"t", "e", "m", "p", "o">>
s_swing == <<"s", "w", "i", "n", "g">>
s_signature == <<"s", "i", "g", "n", "a", "t", "u", "r", "e">>
s_bars == <<"b", "a", "r", "s">>
s_active == <<"a", "c", "t", "i", "v", "e">>
s_pitch == <<"p", "i", "t", "c", "h">>
s_volume == <<"v", "o", "l", "u", "m", "e">>
s_duration == <<"d", "u", "r", "a", "t", "i", "o", "n">>
s_default == <<"d", "e", "f", "a", "u", "l", "t">>
s_foo == <<"f", "o", "o">>
s_bar == <<"b", "a", "r">>
s_kick == <<"k", "i", "c", "k">>
s_C4 == <<"C", "4">>
s_x == <<"x">>
s_y == <<"y">>
s_z == <<"z">>
s_f == <<"f">>
s_a == <<"a">>
s_b == <<"b">>

Kw(s) == <<":">> \o s

-----------------------------------------------------------------------------
(* Conversions of the host language *)

Digits == {"0", "1", "2", "3", "4", "5", "6", "7", "8", "9"}

DigitVal(c) ==
    CASE c = "0" -> 0 [] c = "1" -> 1 [] c = "2" -> 2 [] c = "3" -> 3
      [] c = "4" -> 4 [] c = "5" -> 5 [] c = "6" -> 6 [] c = "7" -> 7
      [] c = "8" -> 8 [] c = "9" -> 9

RECURSIVE DecimalVal(_)
DecimalVal(s) ==
    IF s = <<>> THEN 0
    ELSE 10 * DecimalVal(SubSeq(s, 1, Len(s) - 1)) + DigitVal(s[Len(s)])

(* Number(v): numbers are themselves, "" is 0, a string of digits is its   *)
(* decimal value, null is 0, booleans are 0/1; everything else the model   *)
(* meets (undefined, other strings, objects, functions) is NaN.            *)
ToNumber(v) ==
    CASE v.t = "number" -> v
      [] v.t = "string" ->
            IF \A i \in 1..Len(v.v) : v.v[i] \in Digits
            THEN Num(Hundredths(DecimalVal(v.v))) ELSE NaN
      [] v.t = "null" -> Num(0)
      [] v.t = "boolean" -> IF v.v THEN Num(Hundredths(1)) ELSE Num(0)
      [] OTHER -> NaN

(* the truthiness test of `c ? a : b` *)
Truthy(v) ==
    CASE v.t = "number" -> v.v # 0
      [] v.t = "string" -> v.v # <<>>
      [] v.t = "boolean" -> v.v
      [] v.t \in {"undefined", "null", "NaN"} -> FALSE
      [] OTHER -> TRUE

IsFunction(v) == v.t \in {"primitive", "closure", "env"}

(* a property read on a plain object: undefined when the key is absent *)
ObjGet(o, key) ==
    IF \E i \in 1..Len(o.entries) : o.entries[i].k = key
    THEN o.entries[CHOOSE i \in 1..Len(o.entries) : o.entries[i].k = key].v
    ELSE Undefined

(* o[key] = value: an existing key keeps its place, a new key is appended *)
ObjSet(o, key, value) ==
    IF \E i \in 1..Len(o.entries) : o.entries[i].k = key
    THEN Obj([i \in 1..Len(o.entries) |->
                IF o.entries[i].k = key THEN [k |-> key, v |-> value]
                ELSE o.entries[i]])
    ELSE Obj(Append(o.entries, [k |-> key, v |-> value]))

ObjKeys(o) == [i \in 1..Len(o.entries) |-> o.entries[i].k]

-----------------------------------------------------------------------------
(* Environment model *)

(* createEnv: a new frame holding a copy of bindings, linked to parent;    *)
(* no existing frame is touched.  The result is the new heap and the new   *)
(* environment.                                                            *)
createEnv(h, bindings, parent) ==
    [h |-> Append(h, [b |-> bindings, parent |-> parent]), env |-> Len(h) + 1]

extendEnvInPlace(h, env, newBindings) ==
    [h |-> Append([h EXCEPT ![env].b =
                      [n \in DOMAIN newBindings \cup DOMAIN h[env].b |->
                          IF n \in DOMAIN newBindings THEN newBindings[n]
                          ELSE h[env].b[n]]],
                  [b |-> newBindings, parent |-> env]),
     env |-> Len(h) + 1]

extendEnv(h, env, newBindings) == createEnv(h, newBindings, env)

(* the lookup function createEnv returns *)
RECURSIVE lookup(_, _, _)
lookup(h, env, name) ==
    IF name \in DOMAIN h[env].b THEN h[env].b[name]
    ELSE IF h[env].parent # 0 THEN lookup(h, h[env].parent, name)
    ELSE Err("UndefinedVariable", name)

Binding(name, value) == [n \in {name} |-> value]

-----------------------------------------------------------------------------
(* Argument convention *)

DescriptorTags ==
    {"note", "chord", "sequence", "parallel", "beat-machine", "drum-machine",
     "arrangement", "track", "step", "effect"}

(* extractValue: an object with a truthy `type` gives its `value` field    *)
(* (undefined for an event descriptor, which has none), anything else is   *)
(* returned as it is.                                                      *)
extractValue(value) ==
    CASE value.t = "strlit" -> Str(value.value)
      [] value.t \in DescriptorTags -> Undefined
      [] OTHER -> value

startsWithColon(s) == Len(s) >= 1 /\ s[1] = ":"

slice1(s) == SubSeq(s, 2, Len(s))

(* main.js.bak tests the extracted value, so a string literal counts too *)
isKeywordMarker(arg) ==
    LET argValue == extractValue(arg)
    IN  argValue.t = "string" /\ startsWithColon(argValue.v)

(* interpreter.js tests the argument itself *)
isKeywordMarkerLegacy(arg) ==
    arg.t = "string" /\ startsWithColon(arg.v)

RECURSIVE processArgsFrom(_, _, _, _)
processArgsFrom(args, i, regularArgs, namedArgs) ==
    IF i > Len(args)
    THEN [t |-> "args", regularArgs |-> regularArgs, namedArgs |-> namedArgs]
    ELSE IF isKeywordMarker(args[i])
         THEN IF i + 1 > Len(args)
              THEN Err("MissingNamedArgumentValue", extractValue(args[i]).v)
              ELSE processArgsFrom(args, i + 2, regularArgs,
                      ObjSet(namedArgs, slice1(extractValue(args[i]).v), args[i + 1]))
         ELSE processArgsFrom(args, i + 1, Append(regularArgs, args[i]), namedArgs)

processArgs(args) == processArgsFrom(args, 1, <<>>, Obj(<<>>))

RECURSIVE processArgsLegacyFrom(_, _, _, _)
processArgsLegacyFrom(args, i, regularArgs, namedArgs) ==
    IF i > Len(args)
    THEN [t |-> "args", regularArgs |-> regularArgs, namedArgs |-> namedArgs]
    ELSE IF isKeywordMarkerLegacy(args[i])
         THEN processArgsLegacyFrom(args, i + 2, regularArgs,
                  ObjSet(namedArgs, slice1(args[i].v),
                         IF i + 1 <= Len(args) THEN args[i + 1] ELSE Undefined))
         ELSE processArgsLegacyFrom(args, i + 1, Append(regularArgs, args[i]), namedArgs)

processArgsLegacy(args) == processArgsLegacyFrom(args, 1, <<>>, Obj(<<>>))

-----------------------------------------------------------------------------
(* Primitive library *)

ArgAt(args, i) == IF i <= Len(args) THEN args[i] ELSE Undefined

RestOf(s) == IF s = <<>> THEN <<>> ELSE Tail(s)

(* a destructuring default: `[a, b = d] = args` *)
OrDefault(v, d) == IF v.t = "undefined" THEN d ELSE v

NumericLike(v) == v.t \in {"number", "undefined", "null", "boolean", "NaN"}

(* a + b on the operands the model meets: numeric addition (NaN as soon as *)
(* one side is NaN or undefined), concatenation of two strings             *)
JsAdd(a, b) ==
    IF NumericLike(a) /\ NumericLike(b)
    THEN IF ToNumber(a).t = "number" /\ ToNumber(b).t = "number"
         THEN Num(ToNumber(a).v + ToNumber(b).v) ELSE NaN
    ELSE IF a.t = "string" /\ b.t = "string" THEN Str(a.v \o b.v)
    ELSE Unmodelled

JsSub(a, b) ==
    IF ToNumber(a).t = "number" /\ ToNumber(b).t = "number"
    THEN Num(ToNumber(a).v - ToNumber(b).v) ELSE NaN

(* a === b: primitives compare by value, NaN equals nothing; two objects   *)
(* are equal only when they are the same object, which structural values   *)
(* do not show, so objects compare unequal                                 *)
StrictEq(a, b) ==
    /\ a.t \in {"number", "string", "boolean", "undefined", "null"}
    /\ a = b

(* a < b on numeric operands; a comparison with NaN is false *)
JsLess(a, b) ==
    /\ ToNumber(a).t = "number" /\ ToNumber(b).t = "number"
    /\ ToNumber(a).v < ToNumber(b).v

JsLessEq(a, b) ==
    /\ ToNumber(a).t = "number" /\ ToNumber(b).t = "number"
    /\ ToNumber(a).v <= ToNumber(b).v

RECURSIVE reduceAdd(_, _, _)
reduceAdd(args, i, acc) ==
    IF i > Len(args) THEN acc ELSE reduceAdd(args, i + 1, JsAdd(acc, args[i]))

RECURSIVE reduceSub(_, _, _)
reduceSub(args, i, acc) ==
    IF i > Len(args) THEN acc ELSE reduceSub(args, i + 1, JsSub(acc, args[i]))

mathPrimitives(name, args) ==
    CASE name = s_plus -> reduceAdd(args, 1, Num(0))
      [] name = s_minus ->
            IF Len(args) = 1 THEN JsSub(Num(0), args[1])
            ELSE IF Len(args) = 0 THEN Err("TypeError", "reduce of empty array")
            ELSE reduceSub(args, 2, args[1])

comparisonPrimitives(name, args) ==
    CASE name = s_eq -> Bool(\A i \in 2..Len(args) : StrictEq(args[i], args[i - 1]))
      [] name = s_lt -> Bool(\A i \in 2..Len(args) : JsLess(args[i - 1], args[i]))
      [] name = s_gt -> Bool(\A i \in 2..Len(args) : JsLess(args[i], args[i - 1]))
      [] name = s_le -> Bool(\A i \in 2..Len(args) : JsLessEq(args[i - 1], args[i]))
      [] name = s_ge -> Bool(\A i \in 2..Len(args) : JsLessEq(args[i], args[i - 1]))
      [] name = s_ne ->
            IF Len(args) = 2 THEN Bool(~StrictEq(args[1], args[2]))
            ELSE Bool(~(\A i \in 2..Len(args) : StrictEq(args[i], args[i - 1])))

DefaultDuration == 100
DefaultVelocity == 70
DefaultTempo == 12000
DefaultSwing == 0
DefaultSignature == 400
DefaultBars == 100
DefaultPitch == 0
DefaultVolume == 0
DefaultStepDuration == 25
ActiveFlag == 100

(* `namedArgs.k ? extractValue(namedArgs.k) : d` *)
namedOr(namedArgs, key, d) ==
    IF Truthy(ObjGet(namedArgs, key)) THEN extractValue(ObjGet(namedArgs, key)) ELSE d

(* `namedArgs.k ? Number(extractValue(namedArgs.k)) : d` *)
namedNumberOr(namedArgs, key, d) ==
    IF Truthy(ObjGet(namedArgs, key))
    THEN ToNumber(extractValue(ObjGet(namedArgs, key))) ELSE d

extractAll(vs) == [i \in 1..Len(vs) |-> extractValue(vs[i])]

(* the music primitives that do not evaluate anything themselves *)
musicPrimitives(name, args, namedArgs) ==
    CASE name = s_note ->
            [t |-> "note",
             pitch |-> extractValue(ArgAt(args, 1)),
             duration |-> ToNumber(extractValue(OrDefault(ArgAt(args, 2), Num(DefaultDuration)))),
             velocity |-> namedOr(namedArgs, s_velocity, Num(DefaultVelocity)),
             instrument |-> namedOr(namedArgs, s_instrument, Str(s_default))]
      [] name = s_chord ->
            [t |-> "chord",
             notes |-> IF ArgAt(args, 1).t = "array" THEN extractAll(ArgAt(args, 1).v)
                       ELSE <<extractValue(ArgAt(args, 1))>>,
             duration |-> ToNumber(extractValue(OrDefault(ArgAt(args, 2), Num(DefaultDuration)))),
             velocity |-> namedOr(namedArgs, s_velocity, Num(DefaultVelocity)),
             instrument |-> namedOr(namedArgs, s_instrument, Str(s_default))]
      [] name = s_sequence -> [t |-> "sequence", events |-> args]
      [] name = s_parallel -> [t |-> "parallel", events |-> args]
      [] name = s_beat_machine ->
            [t |-> "beat-machine",
             pattern |-> extractValue(ArgAt(args, 1)),
             sounds |-> IF ArgAt(args, 2).t = "array" THEN extractAll(ArgAt(args, 2).v)
                        ELSE <<extractValue(ArgAt(args, 2))>>,
             tempo |-> namedNumberOr(namedArgs, s_tempo, Num(DefaultTempo)),
             swing |-> namedNumberOr(namedArgs, s_swing, Num(DefaultSwing))]
      [] name = s_drum_machine ->
            [t |-> "drum-machine",
             arrangements |-> args,
             tempo |-> namedNumberOr(namedArgs, s_tempo, Num(DefaultTempo)),
             signature |-> namedNumberOr(namedArgs, s_signature, Num(DefaultSignature))]
      [] name = s_arrangement ->
            [t |-> "arrangement",
             tracks |-> args,
             active |-> IF Truthy(ObjGet(namedArgs, s_active))
                        THEN Bool(ToNumber(extractValue(ObjGet(namedArgs, s_active))) = Num(ActiveFlag))
                        ELSE Bool(TRUE),
             bars |-> namedNumberOr(namedArgs, s_bars, Num(DefaultBars))]
      [] name = s_step ->
            [t |-> "step",
             active |-> Bool(ToNumber(extractValue(ArgAt(args, 1))) = Num(ActiveFlag)),
             pitch |-> namedNumberOr(namedArgs, s_pitch, Num(DefaultPitch)),
             volume |-> namedNumberOr(namedArgs, s_volume, Num(DefaultVolume)),
             duration |-> namedNumberOr(namedArgs, s_duration, Num(DefaultStepDuration))]
      [] name = s_effect ->
            [t |-> "effect",
             effectType |-> extractValue(ArgAt(args, 1)),
             params |-> IF Len(args) >= 2 THEN extractAll(SubSeq(args, 2, Len(args) - 1)) ELSE <<>>,
             target |-> ArgAt(args, Len(args))]

(* the note and chord of interpreter.js take no named arguments *)
legacyMusicPrimitives(name, args) ==
    CASE name = s_note ->
            [t |-> "note",
             pitch |-> ArgAt(args, 1),
             duration |-> ToNumber(OrDefault(ArgAt(args, 2), Num(DefaultDuration)))]
      [] name = s_chord ->
            [t |-> "chord",
             notes |-> IF ArgAt(args, 1).t = "array" THEN ArgAt(args, 1).v
                       ELSE <<ArgAt(args, 1)>>,
             duration |-> ToNumber(OrDefault(ArgAt(args, 2), Num(DefaultDuration)))]
      [] name = s_sequence -> [t |-> "sequence", events |-> args]
      [] name = s_parallel -> [t |-> "parallel", events |-> args]

MathNames == {s_plus, s_minus}
ComparisonNames == {s_eq, s_lt, s_gt, s_le, s_ge, s_ne}
MusicNames ==
    {s_note, s_chord, s_sequence, s_parallel, s_beat_machine, s_drum_machine,
     s_arrangement, s_track, s_step, s_effect}

(* the keys of the primitives table (of it the model carries + and -, the  *)
(* comparisons and the music constructors)                                 *)
primitives(im) ==
    IF im = "main" THEN MathNames \cup ComparisonNames \cup MusicNames
    ELSE MathNames \cup {s_eq, s_lt, s_gt} \cup {s_note, s_chord, s_sequence, s_parallel}

musicPrimitivesList == MusicNames

-----------------------------------------------------------------------------
(* Evaluator *)

RECURSIVE evaluate(_, _, _, _)
RECURSIVE evaluateAllFrom(_, _, _, _, _, _)
RECURSIVE evaluateNamedFrom(_, _, _, _, _, _)
RECURSIVE letBindingsFrom(_, _, _, _, _, _)
RECURSIVE evalBodyFrom(_, _, _, _, _, _)
RECURSIVE bindParamsFrom(_, _, _, _, _)

(* exprs.map(e => evaluate(e, env)), left to right; the first error ends it *)
evaluateAllFrom(im, exprs, i, env, h, acc) ==
    IF i > Len(exprs) THEN R(Arr(acc), h)
    ELSE LET r == evaluate(im, exprs[i], env, h)
         IN  IF IsErr(r.v) THEN r
             ELSE evaluateAllFrom(im, exprs, i + 1, env, r.h, Append(acc, r.v))

evaluateAll(im, exprs, env, h) == evaluateAllFrom(im, exprs, 1, env, h, <<>>)

(* Object.fromEntries(Object.entries(namedArgs).map(([k, v]) => [k, evaluate(v, env)])) *)
evaluateNamedFrom(im, entries, i, env, h, acc) ==
    IF i > Len(entries) THEN R(acc, h)
    ELSE LET r == evaluate(im, entries[i].v, env, h)
         IN  IF IsErr(r.v) THEN r
             ELSE evaluateNamedFrom(im, entries, i + 1, env, r.h,
                                    ObjSet(acc, entries[i].k, r.v))

(* the key a value becomes in `{ [name]: value }` *)
PropertyKey(name) == IF name.t = "string" THEN name.v ELSE <<"?", name.t>>

isQuoteForm(expr) ==
    expr.t = "array" /\ Len(expr.v) >= 1 /\ expr.v[1] = Str(s_quote)

letValueEnvOuter(acc, env) == env

(* the environment a binding's value expression is evaluated in:           *)
(* `evaluate(valueExpr, acc)`, the accumulator of the fold                 *)
letValueEnv(acc, env) == acc

(* bindingPairs.reduce(..., env): the result is the environment reached *)
letBindingsFrom(im, pairs, i, acc, env, h) ==
    IF i > Len(pairs) THEN R(EnvFn(acc), h)
    ELSE IF pairs[i].t # "array" THEN R(Err("TypeError", "binding is not a pair"), h)
    ELSE LET name == ArgAt(pairs[i].v, 1)
             r == evaluate(im, ArgAt(pairs[i].v, 2), letValueEnv(acc, env), h)
         IN  IF IsErr(r.v) THEN r
             ELSE LET e == extendEnv(r.h, acc, Binding(PropertyKey(name), r.v))
                  IN  letBindingsFrom(im, pairs, i + 1, e.env, env, e.h)

(* body.reduce((_, expr) => evaluate(expr, newEnv), null) *)
evalBodyFrom(im, body, i, env, h, acc) ==
    IF i > Len(body) THEN R(acc, h)
    ELSE LET r == evaluate(im, body[i], env, h)
         IN  IF IsErr(r.v) THEN r
             ELSE evalBodyFrom(im, body, i + 1, env, r.h, r.v)

evalLet(im, args, env, h) ==
    LET quotedBindings == ArgAt(args, 1)
    IN  IF quotedBindings.t = "undefined"
        THEN R(Err("TypeError", "let without bindings"), h)
        ELSE LET bp == IF isQuoteForm(quotedBindings)
                       THEN R(ArgAt(quotedBindings.v, 2), h)
                       ELSE evaluate(im, quotedBindings, env, h)
             IN  IF IsErr(bp.v) THEN bp
                 ELSE IF bp.v.t # "array"
                 THEN R(Err("TypeError", "bindings are not a list"), bp.h)
                 ELSE LET ne == letBindingsFrom(im, bp.v.v, 1, env, env, bp.h)
                      IN  IF IsErr(ne.v) THEN ne
                          ELSE evalBodyFrom(im, RestOf(args), 1, ne.v.id, ne.h, Null)

evalLambda(args, env) == Closure(ArgAt(args, 1), RestOf(args), env)

evalIf(im, args, env, h) ==
    LET c == evaluate(im, ArgAt(args, 1), env, h)
    IN  IF IsErr(c.v) THEN c
        ELSE IF Truthy(c.v) THEN evaluate(im, ArgAt(args, 2), env, c.h)
        ELSE evaluate(im, ArgAt(args, 3), env, c.h)

evalQuoteEvaluating(im, rest, env, h) == evaluate(im, ArgAt(rest, 1), env, h)

(* case 'quote': return rest[0] *)
evalQuote(im, rest, env, h) == R(ArgAt(rest, 1), h)

(* the special forms; null says "not a special form" *)
evalSpecialForm(im, expr, env, h) ==
    LET form == expr[1]
        rest == Tail(expr)
    IN  CASE form = Str(s_quote) -> evalQuote(im, rest, env, h)
          [] form = Str(s_let) -> evalLet(im, rest, env, h)
          [] form = Str(s_lambda) -> R(evalLambda(rest, env), h)
          [] form = Str(s_if) -> evalIf(im, rest, env, h)
          [] OTHER -> R(Null, h)

closureScopeOfCaller(fn, callerEnv) == callerEnv

(* the environment a closure's parameters extend: the `env` that           *)
(* evalLambda closed over                                                  *)
closureScope(fn, callerEnv) == fn.env

(* params.reduce((acc, param, i) => extendEnv(acc, {[param]: functionArgs[i]}), env) *)
bindParamsFrom(params, i, functionArgs, acc, h) ==
    IF i > Len(params) THEN [h |-> h, env |-> acc]
    ELSE LET e == extendEnv(h, acc, Binding(PropertyKey(params[i]), ArgAt(functionArgs, i)))
         IN  bindParamsFrom(params, i + 1, functionArgs, e.env, e.h)

(* the function evalLambda returns, called as function(...functionArgs) *)
callClosure(im, fn, functionArgs, callerEnv, h) ==
    IF fn.params.t # "array" THEN R(Err("TypeError", "params.reduce is not a function"), h)
    ELSE LET e == bindParamsFrom(fn.params.v, 1, functionArgs, closureScope(fn, callerEnv), h)
         IN  evalBodyFrom(im, fn.body, 1, e.env, e.h, Null)

trackStepsRest(args) == Arr(RestOf(args))

(* const [soundName, steps] = args *)
trackSteps(args) == ArgAt(args, 2)

(* the track primitive evaluates the elements of its steps list *)
trackPrimitive(im, args, env, h) ==
    IF trackSteps(args).t # "array" THEN R(Err("InvalidTrackSteps", trackSteps(args).t), h)
    ELSE LET r == evaluateAll(im, trackSteps(args).v, env, h)
         IN  IF IsErr(r.v) THEN r
             ELSE R([t |-> "track", soundName |-> extractValue(ArgAt(args, 1)),
                     steps |-> r.v.v], r.h)

(* fn(evaluatedArgs, env, namedArgs) *)
callFunction(im, fn, evaluatedArgs, env, namedArgs, h) ==
    CASE fn.t = "closure" ->
            callClosure(im, fn, <<Arr(evaluatedArgs), EnvFn(env), namedArgs>>, env, h)
      [] fn.t = "env" -> R(lookup(h, fn.id, PropertyKey(Arr(evaluatedArgs))), h)
      [] fn.t = "primitive" /\ fn.name \in MathNames ->
            R(mathPrimitives(fn.name, evaluatedArgs), h)
      [] fn.t = "primitive" /\ fn.name \in ComparisonNames ->
            R(comparisonPrimitives(fn.name, evaluatedArgs), h)
      [] fn.t = "primitive" /\ fn.name = s_track /\ im = "main" ->
            trackPrimitive(im, evaluatedArgs, env, h)
      [] fn.t = "primitive" /\ im = "main" ->
            R(musicPrimitives(fn.name, evaluatedArgs, namedArgs), h)
      [] OTHER -> R(legacyMusicPrimitives(fn.name, evaluatedArgs), h)

(* Function.prototype.length of the callee: the primitives declare         *)
(* (args, _env) or (args, _env, namedArgs = {}), a closure is              *)
(* function(...functionArgs), an environment is name => ...                *)
fnLength(fn) ==
    CASE fn.t = "primitive" -> 2
      [] fn.t = "closure" -> 0
      [] OTHER -> 1

NamedArgsArity == 3

acceptsNamedArgs(first, fn) ==
    \/ first.t = "string" /\ first.v \in musicPrimitivesList
    \/ fnLength(fn) >= NamedArgsArity

resolveCallee(im, first, env, h) ==
    IF first.t = "string" /\ first.v \in primitives(im) THEN R(Prim(first.v), h)
    ELSE evaluate(im, first, env, h)

evalApplication(expr, env, h) ==
    LET first == expr[1]
        fn == resolveCallee("main", first, env, h)
    IN  IF IsErr(fn.v) THEN fn
        ELSE LET pa == processArgs(Tail(expr))
             IN  IF pa.t = "error" THEN R(pa, fn.h)
                 ELSE LET ra == evaluateAll("main", pa.regularArgs, env, fn.h)
                      IN  IF IsErr(ra.v) THEN ra
                          ELSE LET na == evaluateNamedFrom("main", pa.namedArgs.entries, 1,
                                                           env, ra.h, Obj(<<>>))
                               IN  IF IsErr(na.v) THEN na
                                   ELSE IF ~IsFunction(fn.v)
                                   THEN R(Err("NotAFunction", first), na.h)
                                   ELSE IF Len(na.v.entries) > 0 /\ ~acceptsNamedArgs(first, fn.v)
                                   THEN R(Err("UnsupportedNamedArguments", ObjKeys(na.v)), na.h)
                                   ELSE callFunction("main", fn.v, ra.v.v, env, na.v, na.h)

(* the default branch of the switch in interpreter.js *)
evalApplicationLegacy(expr, env, h) ==
    LET first == expr[1]
        fn == resolveCallee("legacy", first, env, h)
    IN  IF IsErr(fn.v) THEN fn
        ELSE LET pa == processArgsLegacy(Tail(expr))
                 ra == evaluateAll("legacy", pa.regularArgs, env, fn.h)
             IN  IF IsErr(ra.v) THEN ra
                 ELSE IF ~IsFunction(fn.v) THEN R(Err("NotAFunction", first), ra.h)
                 ELSE callFunction("legacy", fn.v, ra.v.v, env, pa.namedArgs, ra.h)

startsWithQuoteMark(s) == Len(s) >= 1 /\ s[1] = "\""

evaluateMain(expr, env, h) ==
    CASE expr.t = "strlit" -> R(Str(expr.value), h)
      [] expr.t = "number" -> R(expr, h)
      [] expr.t = "string" ->
            IF startsWithQuoteMark(expr.v)
            THEN R(Str(SubSeq(expr.v, 2, Len(expr.v) - 1)), h)
            ELSE R(lookup(h, env, expr.v), h)
      [] expr.t = "array" ->
            IF Len(expr.v) = 0 THEN R(Arr(<<>>), h)
            ELSE LET sf == evalSpecialForm("main", expr.v, env, h)
                 IN  IF sf.v # Null THEN sf
                     ELSE evalApplication(expr.v, env, sf.h)
      [] OTHER -> R(Err("CannotEvaluate", expr.t), h)

evaluateLegacy(expr, env, h) ==
    CASE expr.t = "number" -> R(expr, h)
      [] expr.t = "string" ->
            IF startsWithQuoteMark(expr.v) THEN R(expr, h)
            ELSE R(lookup(h, env, expr.v), h)
      [] expr.t = "array" ->
            IF Len(expr.v) = 0 THEN R(Arr(<<>>), h)
            ELSE IF expr.v[1] \in {Str(s_quote), Str(s_let), Str(s_lambda), Str(s_if)}
            THEN evalSpecialForm("legacy", expr.v, env, h)
            ELSE evalApplicationLegacy(expr.v, env, h)
      [] OTHER -> R(Err("CannotEvaluate", expr.t), h)

evaluate(im, expr, env, h) ==
    IF im = "main" THEN evaluateMain(expr, env, h) ELSE evaluateLegacy(expr, env, h)

createGlobalEnv(im, h) == createEnv(h, [n \in primitives(im) |-> Prim(n)], 0)

(* a map that keeps going after a form has raised *)
RECURSIVE evaluateEachFrom(_, _, _, _, _, _)
evaluateEachFrom(im, exprs, i, env, h, acc) ==
    IF i > Len(exprs) THEN R(Arr(acc), h)
    ELSE LET r == evaluate(im, exprs[i], env, h)
         IN  evaluateEachFrom(im, exprs, i + 1, env, r.h, Append(acc, r.v))

interpretCollecting(im, program, h) ==
    LET g == createGlobalEnv(im, h)
    IN  evaluateEachFrom(im, program, 1, g.env, g.h, <<>>)

(* interpret: one fresh global environment, then ast.map(evaluate) *)
interpret(im, program, h) ==
    LET g == createGlobalEnv(im, h)
    IN  evaluateAll(im, program, g.env, g.h)

-----------------------------------------------------------------------------
(* Parser: tokens to syntax tree *)

ParserError(kind, line, column) ==
    [t |-> "error", kind |-> kind, data |-> [line |-> line, column |-> column]]

Punct(c, pos) == [value |-> Str(<<c>>), type |-> "none", line |-> 1, column |-> pos]
SymbolToken(s, pos) == [value |-> Str(s), type |-> "symbol", line |-> 1, column |-> pos]
NumberToken(n, pos) == [value |-> Num(n), type |-> "number", line |-> 1, column |-> pos]
StringToken(s, pos) == [value |-> Str(s), type |-> "string", line |-> 1, column |-> pos]

IsCloser(tok) == tok.value = Str(<<")">>) \/ tok.value = Str(<<"]">>)

RECURSIVE parseExpr(_, _)
RECURSIVE parseListFrom(_, _, _)

(* the while loop that collects the elements of a list; the result is the  *)
(* list and the position the loop stopped at                               *)
parseListFrom(tokens, position, list) ==
    IF position <= Len(tokens) /\ ~IsCloser(tokens[position])
    THEN LET r == parseExpr(tokens, position)
         IN  IF r.t = "error" THEN r
             ELSE parseListFrom(tokens, r.position, Append(list, r.node))
    ELSE [t |-> "parsed", node |-> Arr(list), position |-> position]

(* positions are 1-based here: position is the index of the next token *)
parseExpr(tokens, position) ==
    IF position > Len(tokens)
    THEN IF Len(tokens) > 0
         THEN ParserError("UnexpectedEndOfInput", tokens[Len(tokens)].line,
                          tokens[Len(tokens)].column)
         ELSE ParserError("UnexpectedEndOfInput", 1, 0)
    ELSE LET token == tokens[position]
         IN  CASE token.value = Str(<<"'">>) ->
                    LET quoted == parseExpr(tokens, position + 1)
                    IN  IF quoted.t = "error" THEN quoted
                        ELSE [t |-> "parsed",
                              node |-> Arr(<<Str(s_quote), quoted.node>>),
                              position |-> quoted.position]
               [] token.value = Str(<<"(">>) \/ token.value = Str(<<"[">>) ->
                    LET closeBracket == IF token.value = Str(<<"(">>) THEN Str(<<")">>)
                                        ELSE Str(<<"]">>)
                        l == parseListFrom(tokens, position + 1, <<>>)
                    IN  IF l.t = "error" THEN l
                        ELSE IF l.position > Len(tokens)
                        THEN ParserError("MissingClosingBracket", token.line, token.column)
                        ELSE IF tokens[l.position].value # closeBracket
                        THEN ParserError("MismatchedBrackets", tokens[l.position].line,
                                         tokens[l.position].column)
                        ELSE [l EXCEPT !.position = l.position + 1]
               [] IsCloser(token) ->
                    ParserError("UnexpectedClosingBracket", token.line, token.column)
               [] token.type = "string" ->
                    [t |-> "parsed", node |-> StrLit(token.value.v), position |-> position + 1]
               [] OTHER ->
                    [t |-> "parsed", node |-> token.value, position |-> position + 1]

RECURSIVE parseFrom(_, _, _)
parseFrom(tokens, position, result) ==
    IF position > Len(tokens) THEN Arr(result)
    ELSE LET r == parseExpr(tokens, position)
         IN  IF r.t = "error" THEN r
             ELSE parseFrom(tokens, r.position, Append(result, r.node))

parse(tokens) == parseFrom(tokens, 1, <<>>)

-----------------------------------------------------------------------------
(* Tokenizer: source text to tokens.  A text is the sequence of its        *)
(* characters; offsets into a text are 0-based as in the source, so the    *)
(* character at offset i is text[i + 1].                                   *)

IsWhitespace(c) == c \in {" ", "\n", "\t"}

(* the characters a match of /;[^\n]*/g covers *)
InComment(input, i) ==
    \E j \in 1..i : input[j] = ";" /\ \A k \in j..i : input[k] # "\n"

Least(S) == CHOOSE x \in S : \A y \in S : x <= y
Greatest(S) == CHOOSE x \in S : \A y \in S : x >= y

(* getLineAndColumn: input.slice(0, position).split('\n') *)
getLineAndColumn(input, position) ==
    LET prefix == SubSeq(input, 1, IF position > Len(input) THEN Len(input) ELSE position)
        breaks == {k \in 1..Len(prefix) : prefix[k] = "\n"}
    IN  [line |-> Cardinality(breaks) + 1,
         column |-> Len(prefix) - (IF breaks = {} THEN 0 ELSE Greatest(breaks)) + 1]

(* the indexes (1-based) of the characters of input that survive           *)
(* .replace(/;[^\n]*/g, ''), .trim() and .replace(/\s+/g, ' '): of a run   *)
(* of whitespace the first character survives, as a space                  *)
withoutComments(input) ==
    SelectSeq([i \in 1..Len(input) |-> i], LAMBDA i : ~InComment(input, i))

trimmed(input, idx) ==
    LET solid == {k \in 1..Len(idx) : ~IsWhitespace(input[idx[k]])}
    IN  IF solid = {} THEN <<>> ELSE SubSeq(idx, Least(solid), Greatest(solid))

collapsed(input, idx) ==
    LET ks == SelectSeq([k \in 1..Len(idx) |-> k],
                        LAMBDA k : ~(/\ k > 1
                                     /\ IsWhitespace(input[idx[k]])
                                     /\ IsWhitespace(input[idx[k - 1]])))
    IN  [m \in 1..Len(ks) |-> idx[ks[m]]]

preprocessOrigins(input) == collapsed(input, trimmed(input, withoutComments(input)))

preprocess(input) ==
    LET o == preprocessOrigins(input)
    IN  [k \in 1..Len(o) |-> IF IsWhitespace(input[o[k]]) THEN " " ELSE input[o[k]]]

Brackets == {"'", "(", ")", "[", "]"}
AtomEnd == {" ", "'", "(", ")", "[", "]", "\""}

(* the inner loop of a string: the result is the offset it stopped at and  *)
(* the text collected                                                      *)
RECURSIVE scanString(_, _, _)
scanString(chars, i, str) ==
    IF i < Len(chars) /\ chars[i + 1] # "\""
    THEN IF chars[i + 1] = "\\" /\ i + 1 < Len(chars)
         THEN scanString(chars, i + 2,
                         Append(str, CASE chars[i + 2] = "n" -> "\n"
                                       [] chars[i + 2] = "t" -> "\t"
                                       [] OTHER -> chars[i + 2]))
         ELSE scanString(chars, i + 1, Append(str, chars[i + 1]))
    ELSE [i |-> i, str |-> str]

RECURSIVE scanAtom(_, _, _)
scanAtom(chars, i, atom) ==
    IF i < Len(chars) /\ chars[i + 1] \notin AtomEnd
    THEN scanAtom(chars, i + 1, Append(atom, chars[i + 1]))
    ELSE [i |-> i, atom |-> atom]

Token(value, type, position, lc) ==
    [value |-> value, type |-> type, position |-> position,
     line |-> lc.line, column |-> lc.column]

(* the while loop of tokenize; every location is computed from the offset  *)
(* in the preprocessed text, against the original input                    *)
RECURSIVE tokenizeFrom(_, _, _, _)
tokenizeFrom(originalInput, chars, i, tokens) ==
    IF i >= Len(chars) THEN [t |-> "tokens", v |-> tokens]
    ELSE LET char == chars[i + 1]
         IN  CASE char = " " -> tokenizeFrom(originalInput, chars, i + 1, tokens)
               [] char \in Brackets ->
                    tokenizeFrom(originalInput, chars, i + 1,
                        Append(tokens, Token(Str(<<char>>), "none", i,
                                             getLineAndColumn(originalInput, i))))
               [] char = "\"" ->
                    LET s == scanString(chars, i + 1, <<>>)
                    IN  IF s.i >= Len(chars)
                        THEN ParserError("UnterminatedString",
                                         getLineAndColumn(originalInput, i).line,
                                         getLineAndColumn(originalInput, i).column)
                        ELSE tokenizeFrom(originalInput, chars, s.i + 1,
                                Append(tokens, Token(Str(s.str), "string", i,
                                                     getLineAndColumn(originalInput, i))))
               [] OTHER ->
                    LET a == scanAtom(chars, i, <<>>)
                        n == ToNumber(Str(a.atom))
                    IN  tokenizeFrom(originalInput, chars, a.i,
                            Append(tokens,
                                   IF n.t = "NaN"
                                   THEN Token(Str(a.atom), "symbol", i,
                                              getLineAndColumn(originalInput, i))
                                   ELSE Token(n, "number", i,
                                              getLineAndColumn(originalInput, i))))

tokenize(input) == tokenizeFrom(input, preprocess(input), 0, <<>>)

(* parseProgram: the tree, or null once tokenize or parse has thrown (the  *)
(* error goes to the console)                                              *)
parseProgramThrown(input) ==
    LET tokens == tokenize(input)
    IN  IF tokens.t = "error" THEN tokens
        ELSE IF parse(tokens.v).t = "error" THEN parse(tokens.v)
        ELSE Null

parseProgram(input) ==
    LET tokens == tokenize(input)
    IN  IF tokens.t = "error" THEN Null
        ELSE IF parse(tokens.v).t = "error" THEN Null
        ELSE parse(tokens.v)

-----------------------------------------------------------------------------
(* The parser of parser.js: tokens are plain strings, lists are written    *)
(* with parentheses only, and locations are computed when an error is      *)
(* raised                                                                  *)

(* preprocess of parser.js: comments removed and the ends trimmed *)
preprocessLegacy(input) ==
    LET idx == trimmed(input, withoutComments(input))
    IN  [k \in 1..Len(idx) |-> input[idx[k]]]

(* .replace(/[()]/g, ' $& ').trim().split(/\s+/).filter(nonempty) *)
RECURSIVE splitFrom(_, _, _, _)
splitFrom(chars, i, current, tokens) ==
    LET flushed == IF current = <<>> THEN tokens ELSE Append(tokens, current)
    IN  IF i > Len(chars) THEN flushed
        ELSE IF IsWhitespace(chars[i]) THEN splitFrom(chars, i + 1, <<>>, flushed)
        ELSE IF chars[i] \in {"(", ")"}
        THEN splitFrom(chars, i + 1, <<>>, Append(flushed, <<chars[i]>>))
        ELSE splitFrom(chars, i + 1, Append(current, chars[i]), tokens)

tokenizeLegacy(input) == splitFrom(preprocessLegacy(input), 1, <<>>, <<>>)

(* the value a token that is not a parenthesis is pushed as *)
atomLegacy(token) ==
    IF token[1] = "\"" /\ token[Len(token)] = "\""
    THEN Str(SubSeq(token, 2, Len(token) - 1))
    ELSE IF ToNumber(Str(token)).t = "number" THEN ToNumber(Str(token))
    ELSE Str(token)

(* tokens.forEach: stack holds the lists under construction, the last one  *)
(* is `current`; position advances by token.length + 1 per token           *)
RECURSIVE parseLegacyFrom(_, _, _, _, _)
parseLegacyFrom(input, tokens, i, stack, position) ==
    IF i > Len(tokens)
    THEN IF Len(stack) > 1
         THEN ParserError("MissingClosingParenthesis",
                          getLineAndColumn(input, Len(input)).line,
                          getLineAndColumn(input, Len(input)).column)
         ELSE IF stack[1] = <<>> THEN Undefined ELSE stack[1][1]
    ELSE LET token == tokens[i]
             depth == Len(stack)
             next == position + Len(token) + 1
         IN  IF token = <<"(">>
             THEN parseLegacyFrom(input, tokens, i + 1, Append(stack, <<>>), next)
             ELSE IF token = <<")">>
             THEN IF depth <= 1
                  THEN ParserError("UnexpectedClosingParenthesis",
                                   getLineAndColumn(input, position).line,
                                   getLineAndColumn(input, position).column)
                  ELSE parseLegacyFrom(input, tokens, i + 1,
                          [SubSeq(stack, 1, depth - 1) EXCEPT
                              ![depth - 1] = Append(@, Arr(stack[depth]))],
                          next)
             ELSE parseLegacyFrom(input, tokens, i + 1,
                      [stack EXCEPT ![depth] = Append(@, atomLegacy(token))], next)

parseLegacy(input) == parseLegacyFrom(input, tokenizeLegacy(input), 1, <<<<>>>>, 0)

-----------------------------------------------------------------------------
(* Drum machine: parser.extractData turns the tree of parser.parse into    *)
(* the data of the player; player.createParts turns the active arrangement *)
(* into one part per track, and the callback of a part plays its events.   *)
(* Objects are records; a property an object does not have reads as        *)
(* undefined.                                                              *)

s_notes == <<"n", "o", "t", "e", "s">>
s_time == <<"t", "i", "m", "e">>
s_beat == <<"b", "e", "a", "t">>

Field(obj, name) == IF name \in DOMAIN obj THEN obj[name] ELSE Undefined

(* a || b *)
JsOr(a, b) == IF Truthy(a) THEN a ELSE b

IsForm(node, head) == node.t = "array" /\ Len(node.v) >= 1 /\ node.v[1] = Str(head)

(* findArgument: the value after the first occurrence of argName, as a     *)
(* number when Number() makes one of it; null when argName is not there.   *)
(* (A list as the value is returned as it is.)                             *)
findArgument(node, argName) ==
    LET hits == {i \in 1..Len(node) : node[i] = Str(argName) /\ i + 1 <= Len(node)}
    IN  IF hits = {} THEN Null
        ELSE LET value == node[Least(hits) + 1]
             IN  IF ToNumber(value).t = "number" THEN ToNumber(value) ELSE value

(* findSection: the first child list headed by name, or null *)
findSection(node, name) ==
    LET hits == {i \in 1..Len(node) : IsForm(node[i], name)}
    IN  IF hits = {} THEN Null ELSE node[Least(hits)]

DefaultTrackTime == 1600
DefaultNoteVolume == 0
DefaultNotePitch == 0

extractNote(noteNode) ==
    [active |-> Bool(findArgument(noteNode, Kw(s_active)) = Num(ActiveFlag)),
     pitch |-> JsOr(findArgument(noteNode, Kw(s_pitch)), Num(DefaultNotePitch)),
     volume |-> JsOr(findArgument(noteNode, Kw(s_volume)), Num(DefaultNoteVolume))]

extractTrack(trackNode) ==
    LET notesNode == findSection(trackNode, s_notes)
        noteNodes == SelectSeq(Tail(notesNode.v), LAMBDA n : IsForm(n, s_note))
    IN  [name |-> ArgAt(trackNode, 2),
         sample |-> ArgAt(trackNode, 3),
         active |-> Bool(findArgument(trackNode, Kw(s_active)) = Num(ActiveFlag)),
         notes |-> [k \in 1..Len(noteNodes) |-> extractNote(noteNodes[k].v)],
         bars |-> JsOr(findArgument(trackNode, Kw(s_bars)), Num(DefaultBars)),
         time |-> JsOr(findArgument(trackNode, Kw(s_time)), Num(DefaultTrackTime))]

(* the arrangement found at index i (0-based) of the tree *)
extractArrangement(node, i) ==
    LET trackNodes == SelectSeq(SubSeq(node, 3, Len(node)), LAMBDA n : IsForm(n, s_track))
    IN  [id |-> i,
         active |-> Bool(findArgument(node, Kw(s_active)) = Num(ActiveFlag)),
         bars |-> JsOr(findArgument(node, Kw(s_bars)), Num(DefaultBars)),
         tracks |-> [k \in 1..Len(trackNodes) |-> extractTrack(trackNodes[k].v)]]

extractData(tree) ==
    IF ~IsForm(tree, s_drum_machine)
    THEN Err("InvalidDrumMachineSyntax", "must start with (drum-machine ...)")
    ELSE LET at == SelectSeq([i \in 1..Len(tree.v) |-> i],
                             LAMBDA i : i >= 3 /\ IsForm(tree.v[i], s_arrangement))
             trackless ==
                 \E k \in 1..Len(at) : \E j \in 3..Len(tree.v[at[k]].v) :
                     /\ IsForm(tree.v[at[k]].v[j], s_track)
                     /\ findSection(tree.v[at[k]].v[j].v, s_notes) = Null
         IN  IF trackless THEN Err("InvalidDrumMachineSyntax", "missing notes section")
             ELSE [t |-> "data",
                   name |-> ArgAt(tree.v, 2),
                   arrangements |-> [k \in 1..Len(at) |->
                                        extractArrangement(tree.v[at[k]].v, at[k] - 1)]]

DefaultSignatureBeats == 400
DefaultArrangementBars == 100
DefaultNotesPerMeasure == 1600
VolumeDivisor == 10
VolumeScale == 20

(* products and quotients of numbers in hundredths (the inputs of the      *)
(* model keep them exact)                                                  *)
NumTimes(a, b) == Num((a.v * b.v) \div 100)
NumOver(a, d) == Num(a.v \div d)

(* the `measure:beat:sixteenth` position of the note at index (0-based) *)
noteTime(index, notesPerMeasure, beatsPerMeasure) ==
    LET npm == notesPerMeasure.v \div 100
        beats == beatsPerMeasure.v \div 100
        positionInMeasure == index % npm
    IN  [measure |-> index \div npm,
         beat |-> (positionInMeasure * beats) \div npm,
         sixteenth |-> (((positionInMeasure * beats) % npm) * 4) \div npm]

(* `if (index >= totalNotes) return`: the note at index (0-based) is kept  *)
noteFitsAlways(index, totalNotes) == TRUE

noteFits(index, totalNotes) == ~(Hundredths(index) >= totalNotes.v)

(* the part createParts makes of one track of the active arrangement *)
createPart(data, activeArrangement, track, trackIndex) ==
    LET timeSignature == JsOr(Field(data, "signature"), Num(DefaultSignatureBeats))
        arrangementBars == JsOr(activeArrangement.bars, Num(DefaultArrangementBars))
        arrangementVolume == JsOr(Field(activeArrangement, "volume"), Num(0))
        trackBars == IF Field(track, "bars").t # "undefined" THEN track.bars
                     ELSE arrangementBars
        notesPerMeasure == JsOr(track.time, Num(DefaultNotesPerMeasure))
        totalNotes == NumTimes(notesPerMeasure, trackBars)
        trackVolume == JsOr(Field(track, "volume"), Num(0))
        kept == SelectSeq([k \in 1..Len(track.notes) |-> k],
                          LAMBDA k : /\ noteFits(k - 1, totalNotes)
                                     /\ Truthy(track.notes[k].active))
    IN  [trackId |-> [name |-> track.name, index |-> trackIndex],
         active |-> track.active,
         bars |-> trackBars,
         totalNotes |-> totalNotes,
         loopEnd |-> trackBars,
         events |-> [m \in 1..Len(kept) |->
                        [index |-> kept[m] - 1,
                         time |-> noteTime(kept[m] - 1, notesPerMeasure, timeSignature),
                         sample |-> track.sample,
                         pitch |-> JsOr(track.notes[kept[m]].pitch, Num(0)),
                         volume |-> JsOr(track.notes[kept[m]].volume, Num(0)),
                         trackVolume |-> trackVolume,
                         arrangementVolume |-> arrangementVolume,
                         isSynth |-> JsOr(Field(track, "isSynth"), Bool(FALSE))]]]

(* createParts: nothing without data or without an active arrangement,    *)
(* else the loop length and the parts of the first active arrangement      *)
createParts(data) ==
    IF data.t # "data" \/ {k \in 1..Len(data.arrangements) :
                               Truthy(data.arrangements[k].active)} = {}
    THEN Undefined
    ELSE LET activeArrangement ==
                 data.arrangements[Least({k \in 1..Len(data.arrangements) :
                                             Truthy(data.arrangements[k].active)})]
         IN  [t |-> "parts",
              arrangement |-> activeArrangement.id,
              loopBars |-> JsOr(activeArrangement.bars, Num(DefaultArrangementBars)),
              parts |-> [k \in 1..Len(activeArrangement.tracks) |->
                            createPart(data, activeArrangement,
                                       activeArrangement.tracks[k], k - 1)]]

(* the part update makes of one track when the active arrangement is the   *)
(* current one                                                             *)
updatePart(data, activeArrangement, track, trackIndex) ==
    LET arrangementBars == JsOr(activeArrangement.bars, Num(DefaultArrangementBars))
        arrangementVolume == JsOr(Field(activeArrangement, "volume"), Num(0))
        trackBars == IF Field(track, "bars").t # "undefined" THEN track.bars
                     ELSE arrangementBars
        timeSignature == JsOr(Field(data, "signature"), Num(DefaultSignatureBeats))
        notesPerMeasure == JsOr(track.time, Num(DefaultNotesPerMeasure))
        totalNotes == NumTimes(notesPerMeasure, trackBars)
        trackVolume == JsOr(Field(track, "volume"), Num(0))
        kept == SelectSeq([k \in 1..Len(track.notes) |-> k],
                          LAMBDA k : /\ noteFits(k - 1, totalNotes)
                                     /\ Truthy(track.notes[k].active))
    IN  [trackId |-> [name |-> track.name, index |-> trackIndex],
         active |-> track.active,
         bars |-> trackBars,
         totalNotes |-> totalNotes,
         loopEnd |-> trackBars,
         events |-> [m \in 1..Len(kept) |->
                        [index |-> kept[m] - 1,
                         time |-> noteTime(kept[m] - 1, notesPerMeasure, timeSignature),
                         sample |-> track.sample,
                         pitch |-> JsOr(track.notes[kept[m]].pitch, Num(0)),
                         volume |-> JsOr(track.notes[kept[m]].volume, Num(0)),
                         trackVolume |-> trackVolume,
                         arrangementVolume |-> arrangementVolume,
                         isSynth |-> JsOr(Field(track, "isSynth"), Bool(FALSE))]]]

(* arr => arr.active: the first active arrangement of the data, or         *)
(* undefined                                                               *)
findActive(data) ==
    LET hits == {k \in 1..Len(data.arrangements) : Truthy(data.arrangements[k].active)}
    IN  IF hits = {} THEN Undefined ELSE data.arrangements[Least(hits)]

(* the player: its parts (by track index), the id of the arrangement it    *)
(* plays and the state of the transport                                    *)
ArrId(id) == [t |-> "string", arr |-> id]

newPlayer == [parts |-> <<>>, currentArrangementId |-> Null, transport |-> "stopped"]

(* createParts as a method: the player is left as it is when the data has  *)
(* no active arrangement                                                   *)
playerCreateParts(player, data) ==
    IF createParts(data) = Undefined THEN player
    ELSE [player EXCEPT !.parts = createParts(data).parts]

playerStop(player) == [player EXCEPT !.parts = <<>>, !.transport = "stopped"]

playerStart(player, data) ==
    LET created == playerCreateParts(player, data)
        activeArrangement == findActive(data)
    IN  IF activeArrangement = Undefined THEN created
        ELSE [created EXCEPT !.currentArrangementId = ArrId(activeArrangement.id),
                             !.transport = "started"]

playerUpdate(player, data) ==
    LET activeArrangement == findActive(data)
    IN  IF activeArrangement = Undefined
        THEN playerCreateParts(playerStop(player), data)
        ELSE IF ArrId(activeArrangement.id) # player.currentArrangementId
        THEN [playerCreateParts(playerStop(player), data)
                  EXCEPT !.currentArrangementId = ArrId(activeArrangement.id),
                         !.transport = "started"]
        ELSE [player EXCEPT !.parts =
                 [k \in 1..Len(activeArrangement.tracks) |->
                     updatePart(data, activeArrangement, activeArrangement.tracks[k], k - 1)]]

(* the volume the callback of a part computes for a sample event, and the  *)
(* value it ramps the player's volume to                                   *)
combinedVolume(event) ==
    Num(JsOr(event.volume, Num(0)).v
        + NumOver(event.trackVolume, VolumeDivisor).v
        + NumOver(event.arrangementVolume, VolumeDivisor).v)

rampTarget(event) == Num(combinedVolume(event).v * VolumeScale)

-----------------------------------------------------------------------------
(* Track playback of the beat machine (part_003): playTrack walks the      *)
(* steps of a track, playStep triggers the active ones                     *)

(* stepDuration = arrangementDuration / steps.length *)
stepDuration(arrangementDuration, steps) == arrangementDuration \div Len(steps)

(* stepTime = time + (index * stepDuration) *)
stepTime(time, index, arrangementDuration, steps) ==
    time + index * stepDuration(arrangementDuration, steps)

(* playStep: an inactive step triggers nothing; an active one is started   *)
(* at `now` = Tone.now(), the time it is given is only logged              *)
playStep(step, index, time, now, triggered) ==
    IF ~Truthy(step.active) THEN triggered
    ELSE Append(triggered, [index |-> index, time |-> time, at |-> now])

-----------------------------------------------------------------------------
(* The page (main.js): the editor text, the debounce timer of its update   *)
(* handler, the parsed drumMachineData, the audio context, the player, the *)
(* executeCode call waiting for initializeAudioContext, the error shown    *)
(* and the data last handed to player.start                                *)

newApp(text) ==
    [text |-> text, editorTimeout |-> Null, drumMachineData |-> Null,
     context |-> "suspended", player |-> newPlayer, pending |-> Null,
     error |-> FALSE, started |-> Null]

(* parser.extractData(parser.parse(code)), or the error thrown *)
parseResult(code) ==
    IF parseLegacy(code).t # "array" THEN parseLegacy(code)
    ELSE extractData(parseLegacy(code))

(* parseCode: the data replaces drumMachineData and the running player is  *)
(* updated; a failure is shown and drumMachineData stays as it was         *)
parseCodeWith(app, result) ==
    IF result.t = "data"
    THEN [app EXCEPT !.drumMachineData = result,
                     !.error = FALSE,
                     !.player = IF app.player.transport = "started"
                                THEN playerUpdate(app.player, result)
                                ELSE app.player]
    ELSE [app EXCEPT !.error = TRUE]

-----------------------------------------------------------------------------
(* Macros (macros.js): a trigger line of the editor expands to note lines *)

s_notes_macro == <<"*", "-", "n", "o", "t", "e", "s", "-">>
s_active_macro == <<"*", "-", "a", "c", "t", "i", "v", "e", "-">>
s_alt_macro == <<"*", "-", "a", "l", "t", "-">>
s_note_active == <<"(", "n", "o", "t", "e", " ", ":", "a", "c", "t", "i", "v", "e", " ">>

DigitChar(d) == CHOOSE c \in Digits : DigitVal(c) = d

(* `(note :active ${v})` *)
NoteLine(v) == s_note_active \o <<DigitChar(v)>> \o <<")">>

(* trigger.split('-').pop(): what follows the last "-" *)
lastSegment(trigger) ==
    LET dashes == {i \in 1..Len(trigger) : trigger[i] = "-"}
    IN  IF dashes = {} THEN trigger
        ELSE SubSeq(trigger, Greatest(dashes) + 1, Len(trigger))

(* parseInt(s, 10) of a text without sign or leading blanks: the value of  *)
(* its leading digits, NaN when it does not start with a digit             *)
parseInt(s) ==
    LET stops == {i \in 1..Len(s) : s[i] \notin Digits}
        digits == IF stops = {} THEN s ELSE SubSeq(s, 1, Least(stops) - 1)
    IN  IF digits = <<>> THEN NaN ELSE Num(Hundredths(DecimalVal(digits)))

(* lines.join('\n') *)
RECURSIVE joinLines(_)
joinLines(lines) ==
    IF lines = <<>> THEN <<>>
    ELSE IF Len(lines) = 1 THEN lines[1]
    ELSE lines[1] \o <<"\n">> \o joinLines(Tail(lines))

(* the count a counted macro reads off its trigger, or null *)
macroCount(trigger) ==
    LET count == parseInt(lastSegment(trigger))
    IN  IF count.t # "number" \/ count.v <= 0 THEN Null ELSE count

(* i % 2, the flag of line i (0-based) of *-alt-N *)
altFlag(i) == i % 2

macroNotes(trigger) ==
    IF macroCount(trigger) = Null THEN Null
    ELSE Str(joinLines([i \in 1..(macroCount(trigger).v \div 100) |-> NoteLine(0)]))

macroActive(trigger) ==
    IF macroCount(trigger) = Null THEN Null
    ELSE Str(joinLines([i \in 1..(macroCount(trigger).v \div 100) |-> NoteLine(1)]))

macroAlt(trigger) ==
    IF macroCount(trigger) = Null THEN Null
    ELSE Str(joinLines([i \in 1..(macroCount(trigger).v \div 100) |->
                           NoteLine(altFlag(i - 1))]))

startsWith(text, prefix) ==
    Len(text) >= Len(prefix) /\ SubSeq(text, 1, Len(prefix)) = prefix

MacroPatterns == {s_notes_macro, s_active_macro, s_alt_macro}

(* findMacro on a text of one line: the pattern the line starts with *)
findMacro(line) ==
    IF \E pattern \in MacroPatterns : startsWith(line, pattern)
    THEN [t |-> "macro", trigger |-> line,
          pattern |-> CHOOSE pattern \in MacroPatterns : startsWith(line, pattern)]
    ELSE Null

(* expandMacro on a text of one line: the line is replaced by the          *)
(* expansion, or kept when there is none                                   *)
expandMacro(text, macro) ==
    LET expansion == CASE macro.pattern = s_notes_macro -> macroNotes(macro.trigger)
                       [] macro.pattern = s_active_macro -> macroActive(macro.trigger)
                       [] macro.pattern = s_alt_macro -> macroAlt(macro.trigger)
    IN  IF expansion = Null THEN text ELSE expansion.v

-----------------------------------------------------------------------------
(* Programs and inputs the operations are applied to *)

Sym(s) == Str(s)
List(s) == Arr(s)
Quote(e) == Arr(<<Str(s_quote), e>>)
Let(bindings, body) == Arr(<<Str(s_let), Quote(Arr(bindings))>> \o body)
Lambda(params, body) == Arr(<<Str(s_lambda), Arr(params)>> \o body)
Pair(name, e) == Arr(<<Sym(name), e>>)

Names == {s_x, s_y}
Vals == {1000, 2000}
ArgVals == {Num(0), Num(100), Num(500)}

RECURSIVE Rebind(_, _, _, _)
Rebind(x, b, d, body) ==
    IF d = 0 THEN body
    ELSE Let(<<Pair(x, Num(b + d - 1))>>, <<Rebind(x, b, d - 1, body)>>)

RebindDepths == 0..2

(* (let '([x a]) (let '([f (lambda () x)]) (let '([x b]) ... (f)))) *)
ScopeProgram(x, a, b, d) ==
    Let(<<Pair(x, Num(a))>>,
        <<Let(<<Pair(s_f, Lambda(<<>>, <<Sym(x)>>))>>,
              <<Rebind(x, b, d, List(<<Sym(s_f)>>))>>)>>)

(* (let '([f (let '([x a]) (lambda () x))]) (let '([x b]) (f))) *)
EscapeProgram(x, a, b) ==
    Let(<<Pair(s_f, Let(<<Pair(x, Num(a))>>, <<Lambda(<<>>, <<Sym(x)>>)>>))>>,
        <<Let(<<Pair(x, Num(b))>>, <<List(<<Sym(s_f)>>)>>)>>)

ScopePrograms ==
    {ScopeProgram(x, a, b, d) : x \in Names, a \in Vals, b \in Vals, d \in RebindDepths}
    \cup {EscapeProgram(x, a, b) : x \in Names, a \in Vals, b \in Vals}

(* ((lambda (x) x) v) and ((lambda (a b) b) v w) *)
IdentityCall(v) == List(<<Lambda(<<Sym(s_x)>>, <<Sym(s_x)>>), v>>)
SecondCall(v, w) == List(<<Lambda(<<Sym(s_a), Sym(s_b)>>, <<Sym(s_b)>>), v, w>>)

CallPrograms ==
    {IdentityCall(v) : v \in ArgVals} \cup {SecondCall(v, w) : v \in ArgVals, w \in ArgVals}

(* (let '([x a] [y (+ x 1)]) y), (let '([x a] [x b]) x),                   *)
(* (let '([x a] [y b] [z (+ x y)]) z)                                      *)
LetSeq(a) ==
    Let(<<Pair(s_x, Num(a)), Pair(s_y, List(<<Sym(s_plus), Sym(s_x), Num(100)>>))>>,
        <<Sym(s_y)>>)
LetShadow(a, b) == Let(<<Pair(s_x, Num(a)), Pair(s_x, Num(b))>>, <<Sym(s_x)>>)
LetThree(a, b) ==
    Let(<<Pair(s_x, Num(a)), Pair(s_y, Num(b)),
          Pair(s_z, List(<<Sym(s_plus), Sym(s_x), Sym(s_y)>>))>>,
        <<Sym(s_z)>>)

LetVals == {100, 2000}

LetPrograms ==
    {LetSeq(a) : a \in LetVals} \cup {LetShadow(a, b) : a \in LetVals, b \in LetVals}
    \cup {LetThree(a, b) : a \in LetVals, b \in LetVals}

(* unevaluated argument lists for processArgs *)
ArgAtoms == {Num(100), Sym(s_x), Sym(Kw(s_foo)), StrLit(Kw(s_foo)), StrLit(s_a)}
MaxArgs == 3
ArgLists == UNION {[1..n -> ArgAtoms] : n \in 0..MaxArgs}

(* calls that pass named arguments to callees without support for them *)
NamedPairs(keys) ==
    IF Len(keys) = 1 THEN <<Sym(Kw(keys[1])), Num(100)>>
    ELSE <<Sym(Kw(keys[1])), Num(100), Sym(Kw(keys[2])), Num(200)>>

KeyLists == {<<s_foo>>, <<s_bar>>, <<s_foo, s_bar>>}

PlusNamed(keys) == List(<<Sym(s_plus), Num(100), Num(200)>> \o NamedPairs(keys))
EqNamed(keys) == List(<<Sym(s_eq), Num(100), Num(100)>> \o NamedPairs(keys))
ClosureNamed(keys) ==
    Let(<<Pair(s_f, Lambda(<<Sym(s_x)>>, <<Num(700)>>))>>,
        <<List(<<Sym(s_f), Num(100)>> \o NamedPairs(keys))>>)
LambdaNamed(keys) == List(<<Lambda(<<>>, <<Num(700)>>)>> \o NamedPairs(keys))

UnsupportedNamedPrograms ==
    UNION {{PlusNamed(k), EqNamed(k), ClosureNamed(k), LambdaNamed(k)} : k \in KeyLists}

(* calls whose last argument is a keyword marker *)
PlusDangling(k) == List(<<Sym(s_plus), Num(100), Sym(Kw(k))>>)
NoteDangling(k) == List(<<Sym(s_note), Num(100), Sym(Kw(k))>>)
ClosureDangling(k) ==
    Let(<<Pair(s_f, Lambda(<<>>, <<Num(700)>>))>>, <<List(<<Sym(s_f), Sym(Kw(k))>>)>>)

DanglingKeys == {s_foo, s_velocity}

DanglingPrograms ==
    UNION {{PlusDangling(k), NoteDangling(k), ClosureDangling(k)} : k \in DanglingKeys}

(* the named arguments of the music primitives, with the positional        *)
(* arguments each call is given and the documented default                 *)
NamedParams ==
    {[prim |-> s_note, key |-> s_velocity, field |-> "velocity", default |-> Num(DefaultVelocity)],
     [prim |-> s_chord, key |-> s_velocity, field |-> "velocity", default |-> Num(DefaultVelocity)],
     [prim |-> s_note, key |-> s_instrument, field |-> "instrument", default |-> Str(s_default)],
     [prim |-> s_chord, key |-> s_instrument, field |-> "instrument", default |-> Str(s_default)],
     [prim |-> s_beat_machine, key |-> s_tempo, field |-> "tempo", default |-> Num(DefaultTempo)],
     [prim |-> s_beat_machine, key |-> s_swing, field |-> "swing", default |-> Num(DefaultSwing)],
     [prim |-> s_drum_machine, key |-> s_tempo, field |-> "tempo", default |-> Num(DefaultTempo)],
     [prim |-> s_drum_machine, key |-> s_signature, field |-> "signature", default |-> Num(DefaultSignature)],
     [prim |-> s_arrangement, key |-> s_bars, field |-> "bars", default |-> Num(DefaultBars)],
     [prim |-> s_step, key |-> s_pitch, field |-> "pitch", default |-> Num(DefaultPitch)],
     [prim |-> s_step, key |-> s_volume, field |-> "volume", default |-> Num(DefaultVolume)],
     [prim |-> s_step, key |-> s_duration, field |-> "duration", default |-> Num(DefaultStepDuration)]}

NamedVals == {Num(0), Num(50), Num(90), Num(300)}

Positional(prim) ==
    CASE prim \in {s_note, s_chord} -> <<StrLit(s_C4)>>
      [] prim = s_beat_machine -> <<StrLit(s_x), StrLit(s_kick)>>
      [] prim = s_step -> <<Num(100)>>
      [] OTHER -> <<>>

NamedCall(p, v) == List(<<Sym(p.prim)>> \o Positional(p.prim) \o <<Sym(Kw(p.key)), v>>)
PlainCall(prim) == List(<<Sym(prim)>> \o Positional(prim))

NamedPrograms ==
    {NamedCall(p, v) : p \in NamedParams, v \in NamedVals}
    \cup {PlainCall(p.prim) : p \in NamedParams}

(* active flags *)
FlagVals == {Num(0), Num(100), Num(200)}
ArrangementActive(v) == List(<<Sym(s_arrangement), Sym(Kw(s_active)), v>>)
StepActive(v) == List(<<Sym(s_step), v>>)

FlagPrograms ==
    {ArrangementActive(v) : v \in FlagVals} \cup {StepActive(v) : v \in FlagVals}
    \cup {PlainCall(s_arrangement)}

(* quoted trees: an unbound symbol, a call of a primitive, a call of an    *)
(* unbound name, a let, a nested quote, a number                           *)
QuoteExprs ==
    {Sym(s_z),
     Sym(s_plus),
     Num(500),
     List(<<Sym(s_plus), Num(100), Num(200)>>),
     List(<<Sym(s_z), Num(100)>>),
     LetSeq(100),
     Quote(Sym(s_z)),
     List(<<List(<<Sym(s_plus), Num(100)>>), Sym(s_z)>>)}

QuotePrograms == {Quote(e) : e \in QuoteExprs}

(* lets by their body: the bindings, the body forms and the value of the   *)
(* last body form (null for a body that is empty, the initial value of the *)
(* reduce over the body); ((lambda ())) is a call whose value is null      *)
NullCall == List(<<Lambda(<<>>, <<>>)>>)

LetBodyCases ==
    {[bindings |-> <<>>, body |-> <<>>, value |-> Null],
     [bindings |-> <<Pair(s_x, Num(100))>>, body |-> <<>>, value |-> Null],
     [bindings |-> <<Pair(s_x, Num(100))>>, body |-> <<Num(500)>>, value |-> Num(500)],
     [bindings |-> <<Pair(s_x, Num(100))>>, body |-> <<Num(500), Sym(s_x)>>, value |-> Num(100)],
     [bindings |-> <<Pair(s_x, Num(100))>>, body |-> <<Sym(s_x), Num(0)>>, value |-> Num(0)],
     [bindings |-> <<>>, body |-> <<Quote(Sym(s_z))>>, value |-> Sym(s_z)],
     [bindings |-> <<>>, body |-> <<Quote(List(<<>>))>>, value |-> List(<<>>)],
     [bindings |-> <<>>, body |-> <<Num(500), NullCall>>, value |-> Null]}

LetBodyPrograms == {Let(c.bindings, c.body) : c \in LetBodyCases}

(* calls of track: without steps, with the steps as separate arguments,    *)
(* with a number or a string for the steps, and with a quoted list of      *)
(* (step v) forms                                                          *)
MaxSteps == 4
StepFlags == UNION {[1..n -> {0, 100}] : n \in 0..MaxSteps}

StepForm(v) == List(<<Sym(s_step), Num(v)>>)
TrackQuoted(vs) ==
    List(<<Sym(s_track), StrLit(s_kick), Quote(List([i \in 1..Len(vs) |-> StepForm(vs[i])]))>>)
TrackSeparate(vs) ==
    List(<<Sym(s_track), StrLit(s_kick)>> \o [i \in 1..Len(vs) |-> StepForm(vs[i])])
TrackAtom(v) == List(<<Sym(s_track), StrLit(s_kick), v>>)

TrackAtoms == {Num(100), StrLit(s_x), List(<<Sym(s_plus), Num(100), Num(100)>>)}

TrackPrograms ==
    {TrackQuoted(vs) : vs \in StepFlags} \cup {TrackSeparate(vs) : vs \in StepFlags}
    \cup {TrackAtom(v) : v \in TrackAtoms}

(* top-level forms with their values, and the programs made of them *)
TopCases ==
    {[form |-> Num(100), value |-> Num(100)],
     [form |-> List(<<Sym(s_plus), Num(100), Num(200)>>), value |-> Num(300)],
     [form |-> LetSeq(100), value |-> Num(200)],
     [form |-> Sym(s_z), value |-> Err("UndefinedVariable", s_z)],
     [form |-> List(<<Num(100)>>), value |-> Err("NotAFunction", Num(100))]}

MaxForms == 3
TopCaseLists == UNION {[1..n -> TopCases] : n \in 0..MaxForms}
ProgramOf(cs) == [i \in 1..Len(cs) |-> cs[i].form]
TopPrograms == {ProgramOf(cs) : cs \in TopCaseLists}

(* calls of the comparison primitives on 0 to MaxCompare numbers *)
CompareVals == {0, 100, 200}
MaxCompare == 3
CompareLists == UNION {[1..n -> CompareVals] : n \in 0..MaxCompare}
ComparisonCall(op, vs) == List(<<Sym(op)>> \o [i \in 1..Len(vs) |-> Num(vs[i])])

ComparisonPrograms == {ComparisonCall(op, vs) : op \in ComparisonNames, vs \in CompareLists}

Programs ==
    {<<f>> : f \in TrackPrograms \cup LetBodyPrograms \cup ComparisonPrograms}
    \cup TopPrograms

(* drum machine sources, as the trees parser.parse gives: one active       *)
(* arrangement of DrumTracks tracks of DrumNotes notes, after an inactive  *)
(* arrangement or not; :bars and :volume are written or left out (an       *)
(* option is <<>> or <<value>>)                                            *)
DrumTracks == 1
DrumNotes == 3

Opt(key, o) == IF o = <<>> THEN <<>> ELSE <<Sym(Kw(key)), Num(o[1])>>
Written(o, default) == IF o = <<>> THEN default ELSE o[1]

ArrangementBarsOpts == {<<>>, <<100>>, <<300>>}
ArrangementVolumeOpts == {<<>>, <<0>>, <<200>>}
TrackBarsOpts == {<<>>, <<100>>, <<200>>}
TrackVolumeOpts == {<<>>, <<-400>>, <<200>>}
NoteVolumeOpts == {<<>>, <<50>>, <<-50>>}

NoteForm(active, nv) ==
    List(<<Sym(s_note), Sym(Kw(s_active)), Num(active)>> \o Opt(s_volume, nv))

TrackForm(tb, tv, nv) ==
    List(<<Sym(s_track), Str(s_kick), Sym(s_kick), Sym(Kw(s_active)), Num(100)>>
         \o Opt(s_volume, tv) \o Opt(s_bars, tb)
         \o <<List(<<Sym(s_notes)>>
                    \o [n \in 1..DrumNotes |->
                           IF n = 1 THEN NoteForm(100, nv)
                           ELSE NoteForm(IF n % 2 = 1 THEN 100 ELSE 0, <<>>)])>>)

ArrangementForm(active, ab, av, tracks) ==
    List(<<Sym(s_arrangement), Sym(Kw(s_active)), Num(active)>>
         \o Opt(s_bars, ab) \o Opt(s_volume, av) \o tracks)

DrumAst(lead, ab, av, tb, tv, nv) ==
    List(<<Sym(s_drum_machine), Str(s_beat)>>
         \o (IF lead THEN <<ArrangementForm(0, <<>>, <<>>, <<>>)>> ELSE <<>>)
         \o <<ArrangementForm(100, ab, av,
                              [k \in 1..DrumTracks |-> TrackForm(tb, tv, nv)])>>)

DrumAsts ==
    {DrumAst(lead, ab, av, tb, tv, nv) :
        lead \in BOOLEAN, ab \in ArrangementBarsOpts, av \in ArrangementVolumeOpts,
        tb \in TrackBarsOpts, tv \in TrackVolumeOpts, nv \in NoteVolumeOpts}

(* drum machine sources whose arrangement and track write :active or      *)
(* leave it out, and whose track writes :time or leaves it out; all the    *)
(* notes are active                                                        *)
ActiveOpts == {<<>>, <<100>>, <<0>>}
TrackTimeOpts == {<<>>, <<100>>, <<200>>, <<300>>, <<3200>>}

FlagTrack(ta, tt) ==
    List(<<Sym(s_track), Str(s_kick), Sym(s_kick)>>
         \o Opt(s_active, ta) \o Opt(s_time, tt)
         \o <<List(<<Sym(s_notes)>>
                    \o [n \in 1..DrumNotes |-> NoteForm(100, <<>>)])>>)

FlagAst(aa, ta, tt) ==
    List(<<Sym(s_drum_machine), Str(s_beat),
           List(<<Sym(s_arrangement)>> \o Opt(s_active, aa)
                \o [k \in 1..DrumTracks |-> FlagTrack(ta, tt)])>>)

FlagAsts == {FlagAst(aa, ta, tt) : aa \in ActiveOpts, ta \in ActiveOpts, tt \in TrackTimeOpts}

(* the data the player is started and updated with: extracted from        *)
(* sources with the active arrangement first or second, with a track that  *)
(* is as long as its notes or shorter                                      *)
PlayerAsts ==
    {DrumAst(lead, <<>>, <<>>, tb, <<>>, <<>>) : lead \in BOOLEAN, tb \in {<<>>, <<200>>}}
    \cup {FlagAst(aa, <<100>>, tt) : aa \in ActiveOpts, tt \in TrackTimeOpts}

PlayerData == {extractData(a) : a \in PlayerAsts}

(* trigger lines: a counted macro followed by up to MaxSuffix characters *)
MaxSuffix == 2
SuffixChars == {"0", "1", "2", "3", "x", "-"}

RECURSIVE SeqsUpTo(_, _)
SeqsUpTo(S, n) ==
    IF n = 0 THEN {<<>>}
    ELSE SeqsUpTo(S, n - 1) \cup {Append(q, c) : q \in SeqsUpTo(S, n - 1), c \in S}

Triggers == {pattern \o suffix : pattern \in MacroPatterns, suffix \in SeqsUpTo(SuffixChars, MaxSuffix)}

(* tracks handed to playTrack: up to MaxTrackSteps steps, active or not,   *)
(* start times and arrangement durations in hundredths of a second         *)
MaxTrackSteps == 3
StartTimes == {0, 100}
ArrangementDurations == {600, 1200}
StepLists ==
    {[i \in 1..n |-> [type |-> "step", active |-> Bool(flags[i])]] :
        n \in 1..MaxTrackSteps, flags \in [1..MaxTrackSteps -> BOOLEAN]}

(* editor texts: two drum machines that differ in their name, and a text   *)
(* that does not parse                                                     *)
SourceText(name, closed) ==
    <<"(">> \o s_drum_machine \o <<" ", "\"">> \o name \o <<"\"", " ", "(">>
    \o s_arrangement \o <<" ", ":">> \o s_active \o <<" ", "1", ")">>
    \o (IF closed THEN <<")">> ELSE <<>>)

EditorTexts == {SourceText(s_a, TRUE), SourceText(s_b, TRUE), SourceText(s_b, FALSE)}

Forms ==
    ScopePrograms \cup CallPrograms \cup LetPrograms \cup UnsupportedNamedPrograms
    \cup DanglingPrograms \cup NamedPrograms \cup FlagPrograms \cup QuotePrograms
    \cup {Num(100)}

(* token sequences: 'e and (quote e) for three trees, by their lexemes *)
Lexemes(e) ==
    CASE e = "z" -> <<SymbolToken(s_z, 1)>>
      [] e = "(+ 1 2)" ->
            <<Punct("(", 1), SymbolToken(s_plus, 2), NumberToken(100, 4),
              NumberToken(200, 6), Punct(")", 7)>>
      [] e = "[z \"a\"]" ->
            <<Punct("[", 1), SymbolToken(s_z, 2), StringToken(s_a, 4), Punct("]", 7)>>

Tree(e) ==
    CASE e = "z" -> Sym(s_z)
      [] e = "(+ 1 2)" -> List(<<Sym(s_plus), Num(100), Num(200)>>)
      [] e = "[z \"a\"]" -> List(<<Sym(s_z), StrLit(s_a)>>)

Shift(toks, by) == [i \in 1..Len(toks) |-> [toks[i] EXCEPT !.column = @ + by]]

QuoteMarkTokens(e) == <<Punct("'", 1)>> \o Shift(Lexemes(e), 1)
QuoteFormTokens(e) ==
    <<Punct("(", 1), SymbolToken(s_quote, 2)>> \o Shift(Lexemes(e), 7)
    \o <<Punct(")", 8 + Lexemes(e)[Len(Lexemes(e))].column)>>

QuotedSources == {"z", "(+ 1 2)", "[z \"a\"]"}

TokenInputs ==
    {QuoteMarkTokens(e) : e \in QuotedSources} \cup {QuoteFormTokens(e) : e \in QuotedSources}
    \cup {<<Punct("'", 1)>>, <<Punct("(", 1), SymbolToken(s_z, 2)>>, <<Punct(")", 1)>>}

(* expressions evaluated against an existing environment *)
EnvExprs ==
    {Sym(s_x),
     Let(<<Pair(s_x, Num(500))>>, <<Sym(s_x)>>),
     IdentityCall(Num(100)),
     Let(<<Pair(s_f, Lambda(<<>>, <<Sym(s_y)>>))>>, <<List(<<Sym(s_f)>>)>>)}

LookupNames == Names \cup {s_f, s_plus}

-----------------------------------------------------------------------------
(* State machine *)

Impls == {"main", "legacy"}

Init ==
    /\ impl \in Impls
    /\ heap = <<>>
    /\ ast = Null
    /\ last = [op |-> "init"]

(* parseProgram on a token sequence: the tree, or null after an error *)
ParseProgram(tokens) ==
    /\ ast' = IF parse(tokens).t = "error" THEN Null ELSE parse(tokens)
    /\ last' = [op |-> "parse", tokens |-> tokens, res |-> parse(tokens)]
    /\ UNCHANGED <<impl, heap>>

(* interpret(ast): the run starts from a fresh global environment; the     *)
(* frames of an earlier run are unreachable from it and are dropped        *)
Interpret(program) ==
    LET r == interpret(impl, program, <<>>)
    IN  /\ heap' = r.h
        /\ last' = [op |-> "interpret", program |-> program, res |-> r.v]
        /\ UNCHANGED <<impl, ast>>

Next ==
    \/ \E tokens \in TokenInputs : ParseProgram(tokens)
    \/ \E form \in Forms : Interpret(<<form>>)
    \/ ast.t = "array" /\ Interpret(ast.v)

Spec == Init /\ [][Next]_vars

(* whole programs: a program, then interpret applied to it *)
InitPrograms ==
    /\ impl \in Impls
    /\ heap = <<>>
    /\ ast = Null
    /\ \E program \in Programs : last = [op |-> "program", program |-> program]

InterpretProgram ==
    /\ last.op = "program"
    /\ Interpret(last.program)

NextPrograms == InterpretProgram

SpecPrograms == InitPrograms /\ [][NextPrograms]_vars

(* the argument convention on its own: processArgs applied to a list *)
InitArgs ==
    /\ impl \in Impls
    /\ heap = <<>>
    /\ ast = Null
    /\ \E args \in ArgLists : last = [op |-> "args", args |-> args]

ProcessArgs ==
    /\ last.op = "args"
    /\ last' = [op |-> "processArgs", args |-> last.args,
                res |-> IF impl = "main" THEN processArgs(last.args)
                        ELSE processArgsLegacy(last.args)]
    /\ UNCHANGED <<impl, heap, ast>>

NextArgs == ProcessArgs

SpecArgs == InitArgs /\ [][NextArgs]_vars

(* the environment interface on its own: a global environment, extended    *)
(* and evaluated against                                                   *)
InitEnv ==
    /\ impl \in Impls
    /\ heap = createGlobalEnv(impl, <<>>).h
    /\ ast = Null
    /\ last = [op |-> "createGlobalEnv"]

ExtendEnv(env, name, value) ==
    /\ Len(heap) < MaxHeap
    /\ LET e == extendEnv(heap, env, Binding(name, value))
       IN  /\ heap' = e.h
           /\ last' = [op |-> "extendEnv", env |-> env, name |-> name, value |-> value,
                       res |-> EnvFn(e.env)]
    /\ UNCHANGED <<impl, ast>>

Evaluate(expr, env) ==
    LET r == evaluate(impl, expr, env, heap)
    IN  /\ Len(r.h) <= MaxHeap
        /\ heap' = r.h
        /\ last' = [op |-> "evaluate", expr |-> expr, env |-> env, res |-> r.v]
        /\ UNCHANGED <<impl, ast>>

NextEnv ==
    \/ \E env \in 1..Len(heap), name \in Names, value \in Vals : ExtendEnv(env, name, Num(value))
    \/ \E expr \in EnvExprs, env \in 1..Len(heap) : Evaluate(expr, env)

SpecEnv == InitEnv /\ [][NextEnv]_vars

(* parsing from source text: a text, then tokenize or the parse entry      *)
(* point applied to it (parseProgram, or parser.parse of parser.js)        *)
Alphabet == {"(", ")", "[", "]", " ", "\n", "a", ";", "'", "\""}
MaxText == 4
Texts == UNION {[1..n -> Alphabet] : n \in 0..MaxText}

InitText ==
    /\ impl \in Impls
    /\ heap = <<>>
    /\ ast = Null
    /\ \E text \in Texts : last = [op |-> "text", text |-> text]

Tokenize ==
    /\ last.op = "text"
    /\ last' = [op |-> "tokenize", text |-> last.text,
                res |-> IF impl = "main" THEN tokenize(last.text)
                        ELSE [t |-> "tokens", v |-> tokenizeLegacy(last.text)]]
    /\ UNCHANGED <<impl, heap, ast>>

(* res is what the caller receives (nothing when the call throws), error   *)
(* is the ParserError raised on the way                                    *)
ParseText ==
    /\ last.op = "text"
    /\ IF impl = "main"
       THEN /\ ast' = parseProgram(last.text)
            /\ last' = [op |-> "parseProgram", text |-> last.text,
                        res |-> parseProgram(last.text),
                        error |-> parseProgramThrown(last.text)]
       ELSE LET r == parseLegacy(last.text)
            IN  /\ ast' = IF r.t = "error" THEN ast ELSE r
                /\ last' = [op |-> "parseProgram", text |-> last.text,
                            res |-> IF r.t = "error" THEN [t |-> "nothing"] ELSE r,
                            error |-> IF r.t = "error" THEN r ELSE Null]
    /\ UNCHANGED <<impl, heap>>

NextText == Tokenize \/ ParseText

SpecText == InitText /\ [][NextText]_vars

(* the drum machine: a parsed source, its data extracted, the parts        *)
(* created, and the events of the parts played (parser.js and player.js)   *)
InitDrum ==
    /\ impl = "legacy"
    /\ heap = <<>>
    /\ ast \in DrumAsts \cup FlagAsts
    /\ last = [op |-> "parse"]

ExtractData ==
    /\ last.op = "parse"
    /\ last' = [op |-> "extractData", data |-> extractData(ast)]
    /\ UNCHANGED <<impl, heap, ast>>

CreateParts ==
    /\ last.op = "extractData"
    /\ last' = [op |-> "createParts", data |-> last.data, parts |-> createParts(last.data)]
    /\ UNCHANGED <<impl, heap, ast>>

(* the callback of part k for its event m: the track is active and the     *)
(* event is a sample event                                                 *)
PlayEvent(k, m) ==
    /\ last.op \in {"createParts", "play"}
    /\ last.parts.t = "parts"
    /\ k \in 1..Len(last.parts.parts)
    /\ Truthy(last.parts.parts[k].active)
    /\ m \in 1..Len(last.parts.parts[k].events)
    /\ ~Truthy(last.parts.parts[k].events[m].isSynth)
    /\ last' = [op |-> "play", data |-> last.data, parts |-> last.parts,
                part |-> k, event |-> last.parts.parts[k].events[m],
                combinedVolume |-> combinedVolume(last.parts.parts[k].events[m]),
                rampTo |-> rampTarget(last.parts.parts[k].events[m])]
    /\ UNCHANGED <<impl, heap, ast>>

NextDrum ==
    \/ ExtractData
    \/ CreateParts
    \/ \E k \in 1..DrumTracks, m \in 1..DrumNotes : PlayEvent(k, m)

SpecDrum == InitDrum /\ [][NextDrum]_vars

(* the player over a session: start, update and stop in any order, with    *)
(* any of the data (player.js)                                             *)
InitPlayer ==
    /\ impl = "legacy"
    /\ heap = <<>>
    /\ ast = Null
    /\ last = [op |-> "new", data |-> Null, player |-> newPlayer]

Start(data) ==
    /\ last' = [op |-> "start", data |-> data, player |-> playerStart(last.player, data)]
    /\ UNCHANGED <<impl, heap, ast>>

Update(data) ==
    /\ last' = [op |-> "update", data |-> data, player |-> playerUpdate(last.player, data)]
    /\ UNCHANGED <<impl, heap, ast>>

Stop ==
    /\ last.op # "new"
    /\ last' = [op |-> "stop", data |-> last.data, player |-> playerStop(last.player)]
    /\ UNCHANGED <<impl, heap, ast>>

NextPlayer ==
    \/ \E data \in PlayerData : Start(data)
    \/ \E data \in PlayerData : Update(data)
    \/ Stop

SpecPlayer == InitPlayer /\ [][NextPlayer]_vars

(* the editor's macro expansion: a trigger line is typed, found and        *)
(* expanded (macros.js)                                                    *)
InitMacro ==
    /\ impl = "legacy"
    /\ heap = <<>>
    /\ ast = Null
    /\ \E trigger \in Triggers : last = [op |-> "typed", text |-> trigger]

ExpandMacro ==
    /\ last.op = "typed"
    /\ findMacro(last.text) # Null
    /\ last' = [op |-> "expandMacro", trigger |-> last.text,
                text |-> expandMacro(last.text, findMacro(last.text))]
    /\ UNCHANGED <<impl, heap, ast>>

NextMacro == ExpandMacro

SpecMacro == InitMacro /\ [][NextMacro]_vars

(* playTrack, called for the first event with time = Tone.now(): the call, *)
(* then one step of steps.forEach at a time. The loop is synchronous, the  *)
(* clock the control thread reads does not advance within it.              *)
InitTrack ==
    /\ impl = "main"
    /\ heap = <<>>
    /\ ast = Null
    /\ \E time \in StartTimes, arrangementDuration \in ArrangementDurations,
          steps \in StepLists :
            last = [op |-> "playTrack", time |-> time,
                    arrangementDuration |-> arrangementDuration, steps |-> steps,
                    index |-> 0, now |-> time, triggered |-> <<>>]

ForEachStep ==
    /\ last.op \in {"playTrack", "forEach"}
    /\ last.index < Len(last.steps)
    /\ last' = [last EXCEPT
                   !.op = IF last.index + 1 = Len(last.steps) THEN "returned" ELSE "forEach",
                   !.index = last.index + 1,
                   !.triggered =
                       playStep(last.steps[last.index + 1], last.index,
                                stepTime(last.time, last.index,
                                         last.arrangementDuration, last.steps),
                                last.now, last.triggered)]
    /\ UNCHANGED <<impl, heap, ast>>

NextTrack == ForEachStep

SpecTrack == InitTrack /\ [][NextTrack]_vars

(* the results of parsing the editor texts, computed once *)
ParsedTexts == [text \in EditorTexts |-> parseResult(text)]

parseCode(app, code) == parseCodeWith(app, ParsedTexts[code])

(* `if (!drumMachineData) parseCode(code)`: what executeCode plays *)
parsedForRun(app, code) == IF app.drumMachineData = Null THEN parseCode(app, code) ELSE app

(* the try block of executeCode, with the audio context running *)
executeBody(app, code) ==
    LET parsed == parsedForRun(app, code)
    IN  IF parsed.drumMachineData # Null
        THEN [parsed EXCEPT !.player = playerStart(parsed.player, parsed.drumMachineData),
                            !.started = [data |-> parsed.drumMachineData, code |-> code],
                            !.pending = Null]
        ELSE [parsed EXCEPT !.error = TRUE, !.pending = Null]

(* executeCode: without a running context it calls initializeAudioContext  *)
(* and runs again when that promise resolves                               *)
executeCode(app, code) ==
    IF app.context # "running"
    THEN [app EXCEPT !.pending = [code |-> code, stage |-> "Tone.start"]]
    ELSE executeBody(app, code)

(* the page over a session: edits, the debounce timer, Run presses and     *)
(* the steps of initializeAudioContext, in any order (main.js)             *)
InitEditor ==
    /\ impl = "legacy"
    /\ heap = <<>>
    /\ ast = Null
    /\ \E text \in EditorTexts : last = [op |-> "load", app |-> newApp(text)]

(* jar.onUpdate: the timer is cleared and set again with the new code *)
EditText(text) ==
    /\ text # last.app.text
    /\ last' = [op |-> "edit",
                app |-> [last.app EXCEPT !.text = text, !.editorTimeout = Str(text)]]
    /\ UNCHANGED <<impl, heap, ast>>

(* the debounce timer fires: parseCode(code) *)
TimerFires ==
    /\ last.app.editorTimeout # Null
    /\ last' = [op |-> "timer",
                app |-> [parseCode(last.app, last.app.editorTimeout.v)
                            EXCEPT !.editorTimeout = Null]]
    /\ UNCHANGED <<impl, heap, ast>>

(* Run or Ctrl+Enter: executeCode(jar.toString()) *)
Run ==
    /\ last.app.pending = Null
    /\ last' = [op |-> "run",
                app |-> executeCode([last.app EXCEPT !.started = Null], last.app.text)]
    /\ UNCHANGED <<impl, heap, ast>>

(* await Tone.start() resolves, with the context running or not *)
ToneStartResolves(state) ==
    /\ last.app.pending # Null
    /\ last.app.pending.stage = "Tone.start"
    /\ last' = [op |-> "Tone.start",
                app |-> [last.app EXCEPT !.context = state,
                                         !.pending.stage = "player.init"]]
    /\ UNCHANGED <<impl, heap, ast>>

(* await Tone.start() throws: the error is shown, the promise of           *)
(* initializeAudioContext resolves                                         *)
ToneStartFails ==
    /\ last.app.pending # Null
    /\ last.app.pending.stage = "Tone.start"
    /\ last' = [op |-> "Tone.start failed",
                app |-> [last.app EXCEPT !.error = TRUE, !.pending.stage = "then"]]
    /\ UNCHANGED <<impl, heap, ast>>

(* await player.init() resolves and parseCode(jar.toString()) runs, or it  *)
(* throws and the error is shown                                           *)
PlayerInit(ok) ==
    /\ last.app.pending # Null
    /\ last.app.pending.stage = "player.init"
    /\ last' = [op |-> "player.init",
                app |-> [(IF ok THEN parseCode(last.app, last.app.text)
                          ELSE [last.app EXCEPT !.error = TRUE])
                            EXCEPT !.pending.stage = "then"]]
    /\ UNCHANGED <<impl, heap, ast>>

(* .then(() => executeCode(code)) *)
Then ==
    /\ last.app.pending # Null
    /\ last.app.pending.stage = "then"
    /\ last' = [op |-> "then", app |-> executeCode(last.app, last.app.pending.code)]
    /\ UNCHANGED <<impl, heap, ast>>

InitializeAudioContext ==
    \/ \E state \in {"running", "suspended"} : ToneStartResolves(state)
    \/ ToneStartFails
    \/ \E ok \in BOOLEAN : PlayerInit(ok)
    \/ Then

NextEditor ==
    \/ \E text \in EditorTexts : EditText(text)
    \/ TimerFires
    \/ Run
    \/ InitializeAudioContext

SpecEditor == InitEditor /\ [][NextEditor]_vars

(* the promises of initializeAudioContext settle and their callbacks run *)
SpecEditorFair == SpecEditor /\ WF_vars(InitializeAudioContext)

-----------------------------------------------------------------------------
(* Properties *)

Interpreted(form) == last.op = "interpret" /\ last.program = <<form>>

(* C1: a closure's free variables resolve in the environment the lambda    *)
(* form was evaluated in: whatever lets rebind the name between the        *)
(* closure's creation and its call, the call gives the value bound at      *)
(* creation.                                                               *)
C1_LexicalScope ==
    \A x \in Names, a \in Vals, b \in Vals :
        /\ \A d \in RebindDepths :
              Interpreted(ScopeProgram(x, a, b, d)) => last.res = Arr(<<Num(a)>>)
        /\ Interpreted(EscapeProgram(x, a, b)) => last.res = Arr(<<Num(a)>>)

C1_Witness ==
    /\ Interpreted(ScopeProgram(s_x, 1000, 2000, 1))
    /\ last.res = Arr(<<Num(1000)>>)
    /\ Len(heap) = 4

(* C2: calling a closure binds the i-th parameter to the value of the i-th *)
(* positional argument: ((lambda (x) x) v) is v and ((lambda (a b) b) v w) *)
(* is w.                                                                   *)
C2_PositionalBinding ==
    \A v \in ArgVals :
        /\ Interpreted(IdentityCall(v)) => last.res = Arr(<<v>>)
        /\ \A w \in ArgVals : Interpreted(SecondCall(v, w)) => last.res = Arr(<<w>>)

(* C3: the bindings of a let are evaluated left to right, each value       *)
(* expression seeing the bindings before it, the body seeing all of them,  *)
(* and a later binding of a name shadowing an earlier one.                 *)
C3_LetSequential ==
    \A a \in LetVals :
        /\ Interpreted(LetSeq(a)) => last.res = Arr(<<Num(a + 100)>>)
        /\ \A b \in LetVals :
              /\ Interpreted(LetShadow(a, b)) => last.res = Arr(<<Num(b)>>)
              /\ Interpreted(LetThree(a, b)) => last.res = Arr(<<Num(a + b)>>)

C3_Witness ==
    /\ Interpreted(LetSeq(100))
    /\ last.res = Arr(<<Num(200)>>)
    /\ lookup(heap, Len(heap), s_x) = Num(100)

RECURSIVE C5_Positional(_, _)
C5_Positional(args, i) ==
    IF i > Len(args) THEN <<>>
    ELSE IF args[i].t = "string" /\ startsWithColon(args[i].v)
    THEN C5_Positional(args, i + 2)
    ELSE <<args[i]>> \o C5_Positional(args, i + 1)

RECURSIVE C5_Named(_, _, _)
C5_Named(args, i, acc) ==
    IF i >= Len(args) THEN acc
    ELSE IF args[i].t = "string" /\ startsWithColon(args[i].v)
    THEN C5_Named(args, i + 2, ObjSet(acc, slice1(args[i].v), args[i + 1]))
    ELSE C5_Named(args, i + 1, acc)

(* C5: only Symbols beginning with `:` are keyword markers; every other    *)
(* argument, a string literal beginning with `:` included, stays           *)
(* positional, in order.                                                   *)
C5_OnlySymbolsAreMarkers ==
    (impl = "main" /\ last.op = "processArgs" /\ last.res.t = "args") =>
        /\ last.res.regularArgs = C5_Positional(last.args, 1)
        /\ last.res.namedArgs = C5_Named(last.args, 1, Obj(<<>>))

(* C6: named arguments passed to +, = or a closure make the call fail with *)
(* an error naming every key.                                              *)
C6_UnsupportedNamedRejected ==
    \A k \in KeyLists :
        (\/ Interpreted(PlusNamed(k)) \/ Interpreted(EqNamed(k))
         \/ Interpreted(ClosureNamed(k)) \/ Interpreted(LambdaNamed(k)))
        => last.res = Err("UnsupportedNamedArguments", k)

(* C7: a keyword marker that ends the argument list makes the call fail    *)
(* with the missing-value error.                                           *)
C7_DanglingMarkerFails ==
    \A k \in DanglingKeys :
        (\/ Interpreted(PlusDangling(k)) \/ Interpreted(NoteDangling(k))
         \/ Interpreted(ClosureDangling(k)))
        => last.res = Err("MissingNamedArgumentValue", Kw(k))

(* C8: a named argument of a music primitive gives the descriptor field    *)
(* whenever the keyword is present, for every value, 0 included; the       *)
(* default stands only when the keyword is absent.                         *)
C8_NamedValueUsed ==
    impl = "main" =>
        \A p \in NamedParams :
            /\ \A v \in NamedVals :
                  Interpreted(NamedCall(p, v)) =>
                      last.res.t = "array" /\ last.res.v[1][p.field] = v
            /\ Interpreted(PlainCall(p.prim)) =>
                  last.res.t = "array" /\ last.res.v[1][p.field] = p.default

(* C9: an active flag is the comparison of the supplied value with 1; an   *)
(* arrangement without :active is active.                                  *)
C9_ActiveFlag ==
    impl = "main" =>
        /\ \A v \in FlagVals :
              /\ Interpreted(ArrangementActive(v)) =>
                    last.res.t = "array" /\ last.res.v[1].active = Bool(v = Num(ActiveFlag))
              /\ Interpreted(StepActive(v)) =>
                    last.res.t = "array" /\ last.res.v[1].active = Bool(v = Num(ActiveFlag))
        /\ Interpreted(PlainCall(s_arrangement)) =>
              last.res.t = "array" /\ last.res.v[1].active = Bool(TRUE)

(* C10: (quote e) evaluates to the tree e with nothing inside it looked up *)
(* or applied, and 'e parses to the same tree as (quote e).                *)
C10_QuoteNonEvaluating ==
    /\ \A e \in QuoteExprs : Interpreted(Quote(e)) => last.res = Arr(<<e>>)
    /\ \A e \in QuotedSources :
          /\ (last.op = "parse" /\ last.tokens \in {QuoteMarkTokens(e), QuoteFormTokens(e)})
                => last.res = Arr(<<Quote(Tree(e))>>)
          /\ (last.op = "interpret" /\ ast = Arr(<<Quote(Tree(e))>>) /\ last.program = ast.v)
                => last.res = Arr(<<Tree(e)>>)

C10_Witness ==
    /\ ast = parse(QuoteMarkTokens("(+ 1 2)"))
    /\ last.op = "interpret"
    /\ last.program = ast.v
    /\ last.res = Arr(<<List(<<Sym(s_plus), Num(100), Num(200)>>)>>)

(* C11: a let evaluates to the value of its last body form, whatever that  *)
(* value is (0, an empty list, null), and a let with an empty body         *)
(* evaluates to null without an error.                                     *)
C11_LetValue ==
    \A c \in LetBodyCases :
        Interpreted(Let(c.bindings, c.body)) => last.res = Arr(<<c.value>>)

(* the bracket structure of a token sequence, with a token counted as a    *)
(* bracket only when the tokenizer emitted it as punctuation: the openers  *)
(* left unclosed at the end, or the first closer that closes no list of    *)
(* its kind                                                                *)
IsOpenerToken(tok) == tok.type = "none" /\ tok.value \in {Str(<<"(">>), Str(<<"[">>)}
IsCloserToken(tok) == tok.type = "none" /\ tok.value \in {Str(<<")">>), Str(<<"]">>)}
ClosesKind(open, close) ==
    \/ open.value = Str(<<"(">>) /\ close.value = Str(<<")">>)
    \/ open.value = Str(<<"[">>) /\ close.value = Str(<<"]">>)

RECURSIVE BracketScan(_, _, _)
BracketScan(toks, i, stack) ==
    IF i > Len(toks) THEN [t |-> "end", open |-> stack]
    ELSE IF IsOpenerToken(toks[i]) THEN BracketScan(toks, i + 1, Append(stack, i))
    ELSE IF IsCloserToken(toks[i])
    THEN IF stack = <<>> THEN [t |-> "unexpected", at |-> i]
         ELSE IF ~ClosesKind(toks[stack[Len(stack)]], toks[i]) THEN [t |-> "mismatched", at |-> i]
         ELSE BracketScan(toks, i + 1, SubSeq(stack, 1, Len(stack) - 1))
    ELSE BracketScan(toks, i + 1, stack)

(* where in the original text the token's first character is *)
TrueLocation(text, tok) ==
    getLineAndColumn(text, preprocessOrigins(text)[tok.position + 1] - 1)

OnlyParens(text) == \A i \in 1..Len(text) : text[i] \notin {"[", "]", "'", "\""}

(* texts whose only defect is a list left open: the tokens are produced,   *)
(* every closer closes a list of its kind and no quote mark occurs         *)
UnclosedOnly(text) ==
    /\ tokenize(text).t = "tokens"
    /\ \A i \in 1..Len(text) : text[i] # "'"
    /\ BracketScan(tokenize(text).v, 1, <<>>).t = "end"
    /\ BracketScan(tokenize(text).v, 1, <<>>).open # <<>>
    /\ impl = "legacy" => OnlyParens(text)

(* C12: an input in which some ( or [ is never closed raises the           *)
(* missing-closing-bracket error, and the line and column it reports are   *)
(* those of an opening bracket of the text that is left unclosed.          *)
C12_MissingCloserLocated ==
    (last.op = "parseProgram" /\ UnclosedOnly(last.text)) =>
        LET toks == tokenize(last.text).v
            open == BracketScan(toks, 1, <<>>).open
        IN  /\ last.error.t = "error"
            /\ last.error.kind \in {"MissingClosingBracket", "MissingClosingParenthesis"}
            /\ \E k \in 1..Len(open) :
                  last.error.data = TrueLocation(last.text, toks[open[k]])

(* C13: a closer that closes no list of its kind aborts the parse with an  *)
(* error at that closer: unexpected-closing-bracket when no list is open,  *)
(* mismatched-brackets when the innermost open list is of the other kind;  *)
(* no tree is returned.                                                    *)
C13_BadCloserRejected ==
    (/\ impl = "main"
     /\ last.op = "parseProgram"
     /\ tokenize(last.text).t = "tokens"
     /\ BracketScan(tokenize(last.text).v, 1, <<>>).t \in {"unexpected", "mismatched"}) =>
        LET toks == tokenize(last.text).v
            scan == BracketScan(toks, 1, <<>>)
        IN  /\ last.res = Null
            /\ last.error =
                  ParserError(IF scan.t = "unexpected" THEN "UnexpectedClosingBracket"
                              ELSE "MismatchedBrackets",
                              toks[scan.at].line, toks[scan.at].column)

(* C14: when parsing raises a structural error, what the caller of         *)
(* parseProgram receives is an error value with a message, a line >= 1 and *)
(* a column >= 1.                                                          *)
C14_ErrorValueReturned ==
    (impl = "main" /\ last.op = "parseProgram" /\ last.error # Null) =>
        /\ last.res.t = "error"
        /\ last.res.data.line >= 1
        /\ last.res.data.column >= 1

(* C15: every token tokenize produces carries the line and the column at   *)
(* which its first character stands in the original text, comments,        *)
(* newlines and leading whitespace included.                               *)
C15_TokenLocation ==
    (impl = "main" /\ last.op = "tokenize" /\ last.res.t = "tokens") =>
        \A k \in 1..Len(last.res.v) :
            [line |-> last.res.v[k].line, column |-> last.res.v[k].column]
                = TrueLocation(last.text, last.res.v[k])

C17_InterpretAllOrNothing ==
    \A cs \in TopCaseLists :
        (last.op = "interpret" /\ last.program = ProgramOf(cs)) =>
            LET failing == {i \in 1..Len(cs) : IsErr(cs[i].value)}
            IN  /\ failing = {} => last.res = Arr([i \in 1..Len(cs) |-> cs[i].value])
                /\ failing # {} => last.res = cs[Least(failing)].value
                /\ Cardinality({id \in 1..Len(heap) : heap[id].parent = 0}) = 1

C17_Witness ==
    /\ last.op = "interpret"
    /\ last.program = <<LetSeq(100), Sym(s_z), Num(100)>>
    /\ last.res = Err("UndefinedVariable", s_z)
    /\ Len(heap) = 3

(* the relation each comparison primitive is named after *)
Related(op, a, b) ==
    CASE op = s_eq -> a = b
      [] op = s_lt -> a < b
      [] op = s_gt -> a > b
      [] op = s_le -> a <= b
      [] op = s_ge -> a >= b
      [] op = s_ne -> a # b

(* C18: a comparison primitive applied to n numbers is true exactly when   *)
(* its relation holds between every two consecutive arguments; != on three *)
(* or more arguments is true only if every consecutive pair differs.       *)
C18_ComparisonChain ==
    impl = "main" =>
        \A op \in ComparisonNames, vs \in CompareLists :
            Interpreted(ComparisonCall(op, vs)) =>
                last.res = Arr(<<Bool(\A i \in 2..Len(vs) : Related(op, vs[i - 1], vs[i]))>>)

(* C19: the volume applied when a note is played is the sum of the volumes *)
(* written on the note, on its track and on its arrangement (0 where none  *)
(* is written): arrangement 2, track -4 and note 0.5 give -1.5.            *)
C19_AdditiveVolume ==
    \A lead \in BOOLEAN, ab \in ArrangementBarsOpts, av \in ArrangementVolumeOpts,
       tb \in TrackBarsOpts, tv \in TrackVolumeOpts, nv \in NoteVolumeOpts :
        (/\ ast = DrumAst(lead, ab, av, tb, tv, nv)
         /\ last.op = "play"
         /\ last.event.index = 0) =>
            last.combinedVolume = Num(Written(nv, 0) + Written(tv, 0) + Written(av, 0))

(* C20: a track without :bars has the bars of its arrangement as its loop  *)
(* length and note capacity, a track with :bars has its own: in an         *)
(* arrangement with :bars 3, 3 for a track without :bars and 1 for a track *)
(* with :bars 1.                                                           *)
C20_BarsInherited ==
    \A lead \in BOOLEAN, ab \in ArrangementBarsOpts, av \in ArrangementVolumeOpts,
       tb \in TrackBarsOpts, tv \in TrackVolumeOpts, nv \in NoteVolumeOpts :
        (ast = DrumAst(lead, ab, av, tb, tv, nv) /\ last.op = "createParts") =>
            LET bars == Written(tb, Written(ab, DefaultArrangementBars))
            IN  /\ last.parts.t = "parts"
                /\ last.parts.parts[1].bars = Num(bars)
                /\ last.parts.parts[1].loopEnd = Num(bars)
                /\ last.parts.parts[1].totalNotes = Num((DefaultNotesPerMeasure * bars) \div 100)


(* C21: in the data extractData produces, an arrangement or a track that   *)
(* leaves :active out is active; it is inactive only when :active is       *)
(* written with a value other than 1.                                      *)
C21_ActiveByDefault ==
    \A aa \in ActiveOpts, ta \in ActiveOpts, tt \in TrackTimeOpts :
        (ast = FlagAst(aa, ta, tt) /\ last.op = "extractData") =>
            /\ last.data.t = "data"
            /\ last.data.arrangements[1].active = Bool(Written(aa, ActiveFlag) = ActiveFlag)
            /\ last.data.arrangements[1].tracks[1].active
                   = Bool(Written(ta, ActiveFlag) = ActiveFlag)


ActiveIndices(track) ==
    {i \in 0..(Len(track.notes) - 1) : Truthy(track.notes[i + 1].active)}

FittingIndices(track) ==
    {i \in ActiveIndices(track) : i * 100 * 100 < track.time.v * track.bars.v}

EventIndices(part) == {part.events[m].index : m \in 1..Len(part.events)}

RECURSIVE LinesOf(_)
LinesOf(text) ==
    LET breaks == {i \in 1..Len(text) : text[i] = "\n"}
    IN  IF breaks = {} THEN <<text>>
        ELSE <<SubSeq(text, 1, Least(breaks) - 1)>>
             \o LinesOf(SubSeq(text, Least(breaks) + 1, Len(text)))

(* C23: *-alt-N, N >= 1, expands to exactly N lines; line i (0-based) is   *)
(* (note :active 1) when i is even and (note :active 0) when i is odd.     *)
C23_AltStartsActive ==
    (/\ last.op = "expandMacro"
     /\ startsWith(last.trigger, s_alt_macro)
     /\ macroCount(last.trigger) # Null) =>
        LET n == macroCount(last.trigger).v \div 100
        IN  /\ Len(LinesOf(last.text)) = n
            /\ \A i \in 0..(n - 1) :
                   LinesOf(last.text)[i + 1] = NoteLine(IF i % 2 = 0 THEN 1 ELSE 0)


(* C24: when playTrack has played a track of n steps from time t, every    *)
(* active step i was triggered at t + i x (arrangementDuration / n), so    *)
(* the triggers of a track are at strictly increasing times in step order. *)
C24_StepsSpreadInTime ==
    last.op = "returned" =>
        /\ \A m \in 1..Len(last.triggered) :
               last.triggered[m].at
                   = last.time + last.triggered[m].index
                                   * (last.arrangementDuration \div Len(last.steps))
        /\ \A m \in 1..(Len(last.triggered) - 1) :
               last.triggered[m].at < last.triggered[m + 1].at


(* C25: the data executeCode hands to player.start is the data of the code *)
(* it was passed, the editor text at the moment of the run, never the data *)
(* of an earlier text.                                                     *)
C25_RunsCurrentText ==
    last.app.started # Null =>
        last.app.started.data = ParsedTexts[last.app.started.code]

(* C28: an executeCode call that waits for the audio context finishes: it  *)
(* ends with playback started or with an error, after finitely many        *)
(* initialisation attempts.                                                *)
C28_ExecuteCodeFinishes ==
    (last.app.pending # Null) ~> (last.app.pending = Null)


(* C26: after start, update and stop in any order, the parts the player    *)
(* holds are those of the tracks of the active arrangement of the data     *)
(* passed last; the player holds no part after stop or when that data has  *)
(* no active arrangement.                                                  *)
C26_PartsOfLatestData ==
    last.op \in {"start", "update", "stop"} =>
        IF last.op = "stop" \/ findActive(last.data) = Undefined
        THEN last.player.parts = <<>>
        ELSE LET activeArrangement == findActive(last.data)
             IN  /\ Len(last.player.parts) = Len(activeArrangement.tracks)
                 /\ \A k \in 1..Len(activeArrangement.tracks) :
                        last.player.parts[k]
                            = createPart(last.data, activeArrangement,
                                         activeArrangement.tracks[k], k - 1)


(* measure:beat:sixteenth positions in their order *)
TimeBefore(a, b) ==
    \/ a.measure < b.measure
    \/ a.measure = b.measure /\ a.beat < b.beat
    \/ a.measure = b.measure /\ a.beat = b.beat /\ a.sixteenth < b.sixteenth

(* C27: in the parts start and update create, two events of one track for  *)
(* notes at different indices never have the same time, and the times do   *)
(* not decrease with the index.                                            *)
C27_DistinctNoteTimes ==
    last.op \in {"start", "update"} =>
        \A k \in 1..Len(last.player.parts) :
            \A m, n \in 1..Len(last.player.parts[k].events) :
                LET a == last.player.parts[k].events[m]
                    b == last.player.parts[k].events[n]
                IN  a.index < b.index => TimeBefore(a.time, b.time)


(* a text that is one string literal without escapes: a quote, characters  *)
(* other than quote and backslash, a quote                                 *)
IsPlainLiteral(text) ==
    /\ Len(text) >= 2
    /\ text[1] = "\"" /\ text[Len(text)] = "\""
    /\ \A i \in 2..(Len(text) - 1) : text[i] \notin {"\"", "\\"}

(* C29: the value of a string token is what is written between its quotes: *)
(* a semicolon, a newline or several spaces in a string literal are kept,  *)
(* start no comment and are not collapsed.                                 *)
C29_StringValueKept ==
    (impl = "main" /\ last.op = "tokenize" /\ IsPlainLiteral(last.text)) =>
        /\ last.res.t = "tokens"
        /\ Len(last.res.v) = 1
        /\ last.res.v[1].type = "string"
        /\ last.res.v[1].value.v = SubSeq(last.text, 2, Len(last.text) - 1)

====
